---- MODULE Spec2Model ----
(***************************************************************************)
(* Stock-Indicator-App: the signal engine (src/signal_engine.py) and the   *)
(* trend summary (src/trend_analysis.py) run by the dashboard on the       *)
(* result of calculate_all_indicators, the indicator functions             *)
(* (src/indicators.py), the directory search (src/stock_search.py) and the *)
(* news chain of get_stock_data (src/data_fetcher.py).  Each component has *)
(* its own specification; the variables of the others stay parked.         *)
(*                                                                         *)
(* Numbers are integers: prices in price units, RSI in points, momentum in *)
(* percent, volumes in shares.  A float comparison against a product with  *)
(* 1.02 / 0.98 / 1.5 is cross-multiplied so that it stays exact.           *)
(*                                                                         *)
(* A value that may be missing is a sequence: <<>> is "no value" (Python   *)
(* None in the `latest` snapshot, NaN inside a pandas series) and <<v>> is *)
(* the number v.  Reading the number of a missing value (Val) is undefined *)
(* and stops TLC, as the TypeError would stop the program.                 *)
(***************************************************************************)
EXTENDS Integers, Sequences, FiniteSets, TLC

VARIABLES
    price_data,       \* the price frame: its columns and the tail of each column
    indicators,       \* the dict returned by calculate_all_indicators
    recommendations,  \* the analyst records handed to generate_long_term_signal
    pc,               \* the position of the dashboard inside the two signal calls
    short,            \* locals and result of generate_short_term_signal
    long,             \* locals and result of generate_long_term_signal
    summary,          \* the sentences returned by generate_trend_summary
    close_series,     \* the `data` handed to an indicator function
    window_size,      \* the `window` handed to an indicator function
    computed,         \* the function last called and the series it returned
    search_query,     \* the `query` handed to search_stocks
    search_limit,     \* the `limit` handed to search_stocks
    stock_options,    \* the list search_stocks returned
    search_pc,        \* whether search_stocks has returned
    fetch_pc,         \* the position of get_stock_data
    fetch,            \* the locals of get_stock_data
    attempts,         \* the news sources asked so far, with their answers
    answers,          \* what the provider answered for history, info, recommendations
    stock_data,       \* the dict get_stock_data returned
    session_state,    \* st.session_state: the keys set so far and their values
    widgets,          \* what the user left in the sidebar widgets
    main_pc,          \* the position of the script run of main()
    main,             \* the locals of the last script run of main()
    rendered,         \* the messages the last script run put on the page
    sentiment_news,   \* the `news` handed to get_market_sentiment
    sentiment_recs,   \* the `recommendations` handed to get_market_sentiment
    sentiment         \* the dict get_market_sentiment returned

vars == <<price_data, indicators, recommendations, pc, short, long, summary,
          close_series, window_size, computed,
          search_query, search_limit, stock_options, search_pc,
          fetch_pc, fetch, attempts, answers, stock_data,
          session_state, widgets, main_pc, main, rendered,
          sentiment_news, sentiment_recs, sentiment>>

inputs == <<price_data, indicators, recommendations>>

\* the state of one dashboard run
dashboard == <<inputs, pc, short, long, summary>>

\* the call of the indicator functions on one series
calculation == <<close_series, window_size, computed>>

\* the call of search_stocks
search == <<search_query, search_limit, stock_options, search_pc>>

\* the call of get_stock_data
fetching == <<fetch_pc, fetch, attempts, answers, stock_data>>

\* the script run of main() and what it keeps between runs
page == <<session_state, widgets, main_pc, main, rendered>>

\* the call of get_market_sentiment
sentiments == <<sentiment_news, sentiment_recs, sentiment>>

(***************************************************************************)
(* Bounds of the model.                                                    *)
(***************************************************************************)
\* prices range over 0 and 100 - Spread .. 100 + Spread
Spread == 3
\* the longest list of analyst records
MaxRecs == 6

(***************************************************************************)
(* Values.                                                                 *)
(***************************************************************************)
None == <<>>

NaN == <<>>

Num(v) == <<v>>

Val(x) == x[1]

\* pd.isna(x)
isna(x) == x = NaN

\* series.iloc[-1] and series.iloc[-2]
Last(s) == s[Len(s)]

Prev(s) == s[Len(s) - 1]

\* a comparison of two floats either of which may be NaN: False on NaN
FLe(x, y) == ~isna(x) /\ ~isna(y) /\ Val(x) <= Val(y)

FGe(x, y) == ~isna(x) /\ ~isna(y) /\ Val(x) >= Val(y)

\* dict.get(key, default)
Get(d, key, default) == IF key \in DOMAIN d THEN d[key] ELSE default

Range(s) == {s[i] : i \in DOMAIN s}

(***************************************************************************)
(* The accumulators of a signal function and what one rule adds to them.   *)
(***************************************************************************)
Fresh == [buy_score |-> 0, sell_score |-> 0, reasons |-> <<>>,
          signal |-> "", reason |-> <<>>]

Nothing == [buy |-> 0, sell |-> 0, reasons |-> <<>>]

Buy(n, why) == [buy |-> n, sell |-> 0, reasons |-> <<why>>]

Sell(n, why) == [buy |-> 0, sell |-> n, reasons |-> <<why>>]

Note(why) == [buy |-> 0, sell |-> 0, reasons |-> <<why>>]

\* a rule putting its explanation in front of the earlier ones
Apply_Prepend(acc, d) == [acc EXCEPT !.buy_score = @ + d.buy,
                                     !.sell_score = @ + d.sell,
                                     !.reasons = d.reasons \o @]

\* a rule adding its points to both scores
Apply_BothSides(acc, d) == [acc EXCEPT !.buy_score = @ + d.buy + d.sell,
                                       !.sell_score = @ + d.buy + d.sell,
                                       !.reasons = @ \o d.reasons]

\* buy_score += ..., sell_score += ..., reasons.append(...)
Apply(acc, d) == [acc EXCEPT !.buy_score = @ + d.buy,
                             !.sell_score = @ + d.sell,
                             !.reasons = @ \o d.reasons]

\* ", ".join(reasons) if reasons else neutral; the pieces are kept apart
RECURSIVE Join(_)
Join(rs) == IF Len(rs) = 0 THEN <<>>
            ELSE IF Len(rs) = 1 THEN <<rs[1]>>
            ELSE <<rs[1], ", ">> \o Join(Tail(rs))

\* the joined reasons without the neutral phrase for an empty list
JoinOr_NoNeutral(rs, neutral) == Join(rs)

JoinOr(rs, neutral) == IF rs # <<>> THEN Join(rs) ELSE <<neutral>>

\* a result without a 'success' key read as a success
success_DefaultTrue == Get(indicators, "success", TRUE)

\* indicators.get('success', False)
success == Get(indicators, "success", FALSE)

latest == Get(indicators, "latest", <<>>)

indicator_series == Get(indicators, "indicators", <<>>)

(***************************************************************************)
(* generate_short_term_signal                                              *)
(***************************************************************************)
\* the RSI rule with the band ends left out: 30 < rsi < 40 and 60 < rsi < 70
ShortRsiRule_OpenBands(rsi) ==
    IF rsi = None THEN Nothing
    ELSE IF Val(rsi) < 30 THEN Buy(2, "RSI = {rsi:.1f} (oversold)")
    ELSE IF Val(rsi) > 70 THEN Sell(2, "RSI = {rsi:.1f} (overbought)")
    ELSE IF 30 < Val(rsi) /\ Val(rsi) < 40
         THEN Buy(1, "RSI = {rsi:.1f} (approaching oversold)")
    ELSE IF 60 < Val(rsi) /\ Val(rsi) < 70
         THEN Sell(1, "RSI = {rsi:.1f} (approaching overbought)")
    ELSE Nothing

\* RSI Analysis
ShortRsiRule(rsi) ==
    IF rsi = None THEN Nothing
    ELSE IF Val(rsi) < 30 THEN Buy(2, "RSI = {rsi:.1f} (oversold)")
    ELSE IF Val(rsi) > 70 THEN Sell(2, "RSI = {rsi:.1f} (overbought)")
    ELSE IF 30 <= Val(rsi) /\ Val(rsi) <= 40
         THEN Buy(1, "RSI = {rsi:.1f} (approaching oversold)")
    ELSE IF 60 <= Val(rsi) /\ Val(rsi) <= 70
         THEN Sell(1, "RSI = {rsi:.1f} (approaching overbought)")
    ELSE Nothing

\* the SMA20 rule with the 2% tests ahead of the crossover tests
ShortSma20Rule_BandFirst(sma_20, current_price, sma_20_series, Close) ==
    IF sma_20 # None /\ current_price > 0
    THEN IF sma_20_series # <<>> /\ Len(sma_20_series) >= 2
         THEN LET prev_price == IF Len(Close) >= 2 THEN Num(Prev(Close))
                                ELSE Num(current_price)
                  prev_sma20 == IF Len(sma_20_series) >= 2 THEN Prev(sma_20_series)
                                ELSE sma_20
              IN  IF current_price * 100 > Val(sma_20) * 102
                  THEN Buy(1, "Price significantly above SMA20")
                  ELSE IF current_price * 100 < Val(sma_20) * 98
                  THEN Sell(1, "Price significantly below SMA20")
                  ELSE IF FLe(prev_price, prev_sma20) /\ current_price > Val(sma_20)
                  THEN Buy(2, "Price crossed above SMA20 (bullish breakout)")
                  ELSE IF FGe(prev_price, prev_sma20) /\ current_price < Val(sma_20)
                  THEN Sell(2, "Price crossed below SMA20 (bearish breakdown)")
                  ELSE Nothing
         ELSE Nothing
    ELSE Nothing

\* Price vs SMA20 Analysis
ShortSma20Rule(sma_20, current_price, sma_20_series, Close) ==
    IF sma_20 # None /\ current_price > 0
    THEN IF sma_20_series # <<>> /\ Len(sma_20_series) >= 2
         THEN LET prev_price == IF Len(Close) >= 2 THEN Num(Prev(Close))
                                ELSE Num(current_price)
                  prev_sma20 == IF Len(sma_20_series) >= 2 THEN Prev(sma_20_series)
                                ELSE sma_20
              IN  IF FLe(prev_price, prev_sma20) /\ current_price > Val(sma_20)
                  THEN Buy(2, "Price crossed above SMA20 (bullish breakout)")
                  ELSE IF FGe(prev_price, prev_sma20) /\ current_price < Val(sma_20)
                  THEN Sell(2, "Price crossed below SMA20 (bearish breakdown)")
                  ELSE IF current_price * 100 > Val(sma_20) * 102
                  THEN Buy(1, "Price significantly above SMA20")
                  ELSE IF current_price * 100 < Val(sma_20) * 98
                  THEN Sell(1, "Price significantly below SMA20")
                  ELSE Nothing
         ELSE Nothing
    ELSE Nothing

\* the momentum rule firing at the thresholds too
ShortMomentumRule_Inclusive(momentum) ==
    IF momentum = None THEN Nothing
    ELSE IF Val(momentum) >= 5
         THEN Buy(1, "Strong positive momentum ({momentum:.1f}%)")
    ELSE IF Val(momentum) <= -5
         THEN Sell(1, "Strong negative momentum ({momentum:.1f}%)")
    ELSE Nothing

\* Momentum Analysis
ShortMomentumRule(momentum) ==
    IF momentum = None THEN Nothing
    ELSE IF Val(momentum) > 5
         THEN Buy(1, "Strong positive momentum ({momentum:.1f}%)")
    ELSE IF Val(momentum) < -5
         THEN Sell(1, "Strong negative momentum ({momentum:.1f}%)")
    ELSE Nothing

\* the volume step scoring the side it confirms
ShortVolumeRule_Scores(volume_avg, pd, buy_score, sell_score) ==
    IF volume_avg # None /\ volume_avg # <<>> /\ "Volume" \in pd.columns
    THEN LET current_volume == Last(pd.Volume)
             avg_volume == Last(volume_avg)
         IN  IF ~isna(avg_volume) /\ Val(avg_volume) > 0
             THEN IF current_volume * 2 > Val(avg_volume) * 3
                  THEN IF buy_score > sell_score
                       THEN Buy(1, "High volume confirms bullish move")
                       ELSE IF sell_score > buy_score
                       THEN Sell(1, "High volume confirms bearish move")
                       ELSE Nothing
                  ELSE Nothing
             ELSE Nothing
    ELSE Nothing

\* Volume Analysis: a note, never a score
ShortVolumeRule(volume_avg, pd, buy_score, sell_score) ==
    IF volume_avg # None /\ volume_avg # <<>> /\ "Volume" \in pd.columns
    THEN LET current_volume == Last(pd.Volume)
             avg_volume == Last(volume_avg)
         IN  IF ~isna(avg_volume) /\ Val(avg_volume) > 0
             THEN IF current_volume * 2 > Val(avg_volume) * 3
                  THEN IF buy_score > sell_score
                       THEN Note("High volume confirms bullish move")
                       ELSE IF sell_score > buy_score
                       THEN Note("High volume confirms bearish move")
                       ELSE Nothing
                  ELSE Nothing
             ELSE Nothing
    ELSE Nothing

\* the short-term decision letting a tie go to BUY
ShortDecision_TieBuys(buy_score, sell_score) ==
    IF buy_score >= sell_score /\ buy_score >= 2 THEN "BUY"
    ELSE IF sell_score > buy_score /\ sell_score >= 2 THEN "SELL"
    ELSE "HOLD"

\* Determine signal
ShortDecision(buy_score, sell_score) ==
    IF buy_score > sell_score /\ buy_score >= 2 THEN "BUY"
    ELSE IF sell_score > buy_score /\ sell_score >= 2 THEN "SELL"
    ELSE "HOLD"

ShortInsufficient ==
    /\ pc = "short_start"
    /\ ~success
    /\ short' = [short EXCEPT !.signal = "HOLD",
                              !.reason = <<"Insufficient data for analysis">>]
    /\ pc' = "long_start"
    /\ UNCHANGED <<inputs, long, summary, calculation, search, fetching, page, sentiments>>

ShortRsi ==
    /\ pc = "short_start"
    /\ success
    /\ short' = Apply(Fresh, ShortRsiRule(Get(latest, "rsi", None)))
    /\ pc' = "short_sma20"
    /\ UNCHANGED <<inputs, long, summary, calculation, search, fetching, page, sentiments>>

ShortSma20 ==
    /\ pc = "short_sma20"
    /\ short' = Apply(short, ShortSma20Rule(Get(latest, "sma_20", None),
                                            Get(latest, "current_price", 0),
                                            Get(indicator_series, "sma_20", <<>>),
                                            price_data.Close))
    /\ pc' = "short_momentum"
    /\ UNCHANGED <<inputs, long, summary, calculation, search, fetching, page, sentiments>>

ShortMomentum ==
    /\ pc = "short_momentum"
    /\ short' = Apply(short, ShortMomentumRule(Get(latest, "momentum", None)))
    /\ pc' = "short_volume"
    /\ UNCHANGED <<inputs, long, summary, calculation, search, fetching, page, sentiments>>

ShortVolume ==
    /\ pc = "short_volume"
    /\ short' = Apply(short, ShortVolumeRule(Get(indicator_series, "volume_avg", None),
                                             price_data,
                                             short.buy_score, short.sell_score))
    /\ pc' = "short_decide"
    /\ UNCHANGED <<inputs, long, summary, calculation, search, fetching, page, sentiments>>

ShortDecide ==
    /\ pc = "short_decide"
    /\ short' = [short EXCEPT
                   !.signal = ShortDecision(short.buy_score, short.sell_score),
                   !.reason = JoinOr(short.reasons, "Neutral technical indicators")]
    /\ pc' = "long_start"
    /\ UNCHANGED <<inputs, long, summary, calculation, search, fetching, page, sentiments>>

(***************************************************************************)
(* generate_long_term_signal                                               *)
(***************************************************************************)
\* A grade string is the sequence of its characters; str.upper() maps each
\* lower-case letter to its capital and leaves every other character alone.
LowerCase == <<"a", "b", "c", "d", "e", "f", "g", "h", "i", "j", "k", "l", "m",
               "n", "o", "p", "q", "r", "s", "t", "u", "v", "w", "x", "y", "z">>

UpperCase == <<"A", "B", "C", "D", "E", "F", "G", "H", "I", "J", "K", "L", "M",
               "N", "O", "P", "Q", "R", "S", "T", "U", "V", "W", "X", "Y", "Z">>

UpperChar(c) == IF \E i \in DOMAIN LowerCase : LowerCase[i] = c
                THEN UpperCase[CHOOSE i \in DOMAIN LowerCase : LowerCase[i] = c]
                ELSE c

upper(str) == [i \in DOMAIN str |-> UpperChar(str[i])]

BuyGrades == { <<"B", "U", "Y">>,
               <<"S", "T", "R", "O", "N", "G", " ", "B", "U", "Y">>,
               <<"O", "U", "T", "P", "E", "R", "F", "O", "R", "M">> }

SellGrades == { <<"S", "E", "L", "L">>,
                <<"S", "T", "R", "O", "N", "G", " ", "S", "E", "L", "L">>,
                <<"U", "N", "D", "E", "R", "P", "E", "R", "F", "O", "R", "M">> }

\* the analyst window taking every record
RecentRecommendations_All(recs) == recs

\* recommendations[-5:] if len(recommendations) >= 5 else recommendations
RecentRecommendations(recs) ==
    IF Len(recs) >= 5 THEN SubSeq(recs, Len(recs) - 4, Len(recs)) ELSE recs

\* sum(1 for rec in recent if rec.get('toGrade', '').upper() in grades)
GradeCount(recent, grades) ==
    Cardinality({i \in DOMAIN recent : upper(Get(recent[i], "toGrade", <<>>)) \in grades})

\* the SMA200 rule reading a missing SMA200 as 0
LongSma200Rule_MissingIsZero(sma_200, current_price) ==
    LET sma == IF sma_200 # None THEN Val(sma_200) ELSE 0
    IN  IF current_price > 0
        THEN IF current_price > sma
             THEN Buy(3, "Price ({current_price:.2f}) above SMA200 ({sma_200:.2f}) - long-term uptrend")
             ELSE Sell(2, "Price ({current_price:.2f}) below SMA200 ({sma_200:.2f}) - long-term downtrend")
        ELSE Nothing

\* SMA200 Analysis (long-term trend)
LongSma200Rule(sma_200, current_price) ==
    IF sma_200 # None /\ current_price > 0
    THEN IF current_price > Val(sma_200)
         THEN Buy(3, "Price ({current_price:.2f}) above SMA200 ({sma_200:.2f}) - long-term uptrend")
         ELSE Sell(2, "Price ({current_price:.2f}) below SMA200 ({sma_200:.2f}) - long-term downtrend")
    ELSE Nothing

\* the cross rule asking for a strict previous inequality
LongCrossRule_Strict(sma_50, sma_200, sma_50_series, sma_200_series) ==
    IF sma_50 # None /\ sma_200 # None
    THEN IF sma_50_series # <<>> /\ sma_200_series # <<>> /\ Len(sma_50_series) >= 2
         THEN LET prev_sma50 == Prev(sma_50_series)
                  prev_sma200 == IF Len(sma_200_series) >= 2 THEN Prev(sma_200_series)
                                 ELSE sma_200
              IN  IF ~FGe(prev_sma50, prev_sma200) /\ ~isna(prev_sma50)
                     /\ ~isna(prev_sma200) /\ Val(sma_50) > Val(sma_200)
                  THEN Buy(3, "Golden Cross detected (SMA50 > SMA200) - strong bullish signal")
                  ELSE IF ~FLe(prev_sma50, prev_sma200) /\ ~isna(prev_sma50)
                          /\ ~isna(prev_sma200) /\ Val(sma_50) < Val(sma_200)
                  THEN Sell(3, "Death Cross detected (SMA50 < SMA200) - strong bearish signal")
                  ELSE IF Val(sma_50) > Val(sma_200)
                  THEN Buy(1, "SMA50 above SMA200 - positive trend")
                  ELSE IF Val(sma_50) < Val(sma_200)
                  THEN Sell(1, "SMA50 below SMA200 - negative trend")
                  ELSE Nothing
         ELSE Nothing
    ELSE Nothing

\* SMA50 vs SMA200 Analysis (Golden/Death Cross)
LongCrossRule(sma_50, sma_200, sma_50_series, sma_200_series) ==
    IF sma_50 # None /\ sma_200 # None
    THEN IF sma_50_series # <<>> /\ sma_200_series # <<>> /\ Len(sma_50_series) >= 2
         THEN LET prev_sma50 == Prev(sma_50_series)
                  prev_sma200 == IF Len(sma_200_series) >= 2 THEN Prev(sma_200_series)
                                 ELSE sma_200
              IN  IF FLe(prev_sma50, prev_sma200) /\ Val(sma_50) > Val(sma_200)
                  THEN Buy(3, "Golden Cross detected (SMA50 > SMA200) - strong bullish signal")
                  ELSE IF FGe(prev_sma50, prev_sma200) /\ Val(sma_50) < Val(sma_200)
                  THEN Sell(3, "Death Cross detected (SMA50 < SMA200) - strong bearish signal")
                  ELSE IF Val(sma_50) > Val(sma_200)
                  THEN Buy(1, "SMA50 above SMA200 - positive trend")
                  ELSE IF Val(sma_50) < Val(sma_200)
                  THEN Sell(1, "SMA50 below SMA200 - negative trend")
                  ELSE Nothing
         ELSE Nothing
    ELSE Nothing

\* Long-term Momentum Analysis
LongMomentumRule(momentum) ==
    IF momentum = None THEN Nothing
    ELSE IF Val(momentum) > 10
         THEN Buy(2, "Strong long-term momentum ({momentum:.1f}%)")
    ELSE IF Val(momentum) < -10
         THEN Sell(2, "Weak long-term momentum ({momentum:.1f}%)")
    ELSE Nothing

\* Analyst Recommendations Analysis
LongAnalystRule(recs) ==
    IF recs # <<>>
    THEN LET recent_recommendations == RecentRecommendations(recs)
             buy_count == GradeCount(recent_recommendations, BuyGrades)
             sell_count == GradeCount(recent_recommendations, SellGrades)
         IN  IF buy_count > sell_count * 2
             THEN Buy(1, "Analyst sentiment: {buy_count} buy recommendations")
             ELSE IF sell_count > buy_count * 2
             THEN Sell(1, "Analyst sentiment: {sell_count} sell recommendations")
             ELSE Nothing
    ELSE Nothing

\* the long-term decision asking for more than 4
LongDecision_Above4(buy_score, sell_score) ==
    IF buy_score > 4 THEN "BUY"
    ELSE IF sell_score > 4 THEN "SELL"
    ELSE IF buy_score > sell_score THEN "HOLD (Bullish)"
    ELSE IF sell_score > buy_score THEN "HOLD (Bearish)"
    ELSE "HOLD"

\* the long-term decision testing the sell threshold first
LongDecision_SellFirst(buy_score, sell_score) ==
    IF sell_score >= 4 THEN "SELL"
    ELSE IF buy_score >= 4 THEN "BUY"
    ELSE IF buy_score > sell_score THEN "HOLD (Bullish)"
    ELSE IF sell_score > buy_score THEN "HOLD (Bearish)"
    ELSE "HOLD"

\* Determine signal
LongDecision(buy_score, sell_score) ==
    IF buy_score >= 4 THEN "BUY"
    ELSE IF sell_score >= 4 THEN "SELL"
    ELSE IF buy_score > sell_score THEN "HOLD (Bullish)"
    ELSE IF sell_score > buy_score THEN "HOLD (Bearish)"
    ELSE "HOLD"

LongInsufficient ==
    /\ pc = "long_start"
    /\ ~success
    /\ long' = [long EXCEPT !.signal = "HOLD",
                            !.reason = <<"Insufficient data for analysis">>]
    /\ pc' = "trend_summary"
    /\ UNCHANGED <<inputs, short, summary, calculation, search, fetching, page, sentiments>>

LongSma200 ==
    /\ pc = "long_start"
    /\ success
    /\ long' = Apply(Fresh, LongSma200Rule(Get(latest, "sma_200", None),
                                           Get(latest, "current_price", 0)))
    /\ pc' = "long_cross"
    /\ UNCHANGED <<inputs, short, summary, calculation, search, fetching, page, sentiments>>

LongCross ==
    /\ pc = "long_cross"
    /\ long' = Apply(long, LongCrossRule(Get(latest, "sma_50", None),
                                         Get(latest, "sma_200", None),
                                         Get(indicator_series, "sma_50", <<>>),
                                         Get(indicator_series, "sma_200", <<>>)))
    /\ pc' = "long_momentum"
    /\ UNCHANGED <<inputs, short, summary, calculation, search, fetching, page, sentiments>>

LongMomentum ==
    /\ pc = "long_momentum"
    /\ long' = Apply(long, LongMomentumRule(Get(latest, "momentum", None)))
    /\ pc' = "long_analyst"
    /\ UNCHANGED <<inputs, short, summary, calculation, search, fetching, page, sentiments>>

LongAnalyst ==
    /\ pc = "long_analyst"
    /\ long' = Apply(long, LongAnalystRule(recommendations))
    /\ pc' = "long_decide"
    /\ UNCHANGED <<inputs, short, summary, calculation, search, fetching, page, sentiments>>

LongDecide ==
    /\ pc = "long_decide"
    /\ long' = [long EXCEPT
                  !.signal = LongDecision(long.buy_score, long.sell_score),
                  !.reason = JoinOr(long.reasons, "Mixed long-term indicators")]
    /\ pc' = "trend_summary"
    /\ UNCHANGED <<inputs, short, summary, calculation, search, fetching, page, sentiments>>

(***************************************************************************)
(* generate_trend_summary: the sentences of the narrative, in the order    *)
(* they are appended; " ".join keeps them in that order.                   *)
(***************************************************************************)
\* price_data.empty and len(price_data): every column has as many rows
len(pd) == IF "Close" \in pd.columns THEN Len(pd.Close) ELSE Len(pd.Volume)

empty(pd) == len(pd) = 0

\* the early return taken on an empty frame only
TrendInsufficient_EmptyOnly(ind, pd) == empty(pd)

\* not indicators.get('success', False) or price_data.empty
TrendInsufficient(ind, pd) == ~Get(ind, "success", FALSE) \/ empty(pd)

\* Price and Momentum: abs(price_change) > 0.1 percent, cross-multiplied;
\* a previous close of 0 gives inf (a gain) or, with 0 / 0, NaN (no sentence)
TrendPriceRule(pd, current_price) ==
    IF len(pd) >= 2
    THEN LET previous == Prev(pd.Close)
         IN  IF previous = 0
             THEN IF current_price > 0
                  THEN <<"{ticker} is showing positive momentum with a {price_change:.2f}% gain.">>
                  ELSE <<>>
             ELSE IF (current_price - previous) * 1000 > previous
             THEN <<"{ticker} is showing positive momentum with a {price_change:.2f}% gain.">>
             ELSE IF (previous - current_price) * 1000 > previous
             THEN <<"{ticker} is experiencing downward pressure with a {price_change:.2f}% decline.">>
             ELSE <<>>
    ELSE <<>>

\* RSI Analysis
TrendRsiRule(rsi) ==
    IF rsi = None THEN <<>>
    ELSE IF Val(rsi) < 30
         THEN <<"RSI at {rsi:.1f} indicates oversold conditions, potentially signaling a buying opportunity.">>
    ELSE IF Val(rsi) > 70
         THEN <<"RSI at {rsi:.1f} suggests overbought territory, indicating potential selling pressure.">>
    ELSE IF 40 <= Val(rsi) /\ Val(rsi) <= 60
         THEN <<"RSI at {rsi:.1f} suggests balanced market conditions.">>
    ELSE <<>>

\* Moving Average Analysis
TrendAverageRule(current_price, sma_20, sma_50, sma_200) ==
    IF sma_20 # None /\ sma_50 # None /\ sma_200 # None
    THEN IF current_price > Val(sma_20) /\ Val(sma_20) > Val(sma_50)
            /\ Val(sma_50) > Val(sma_200)
         THEN <<"Price structure shows strong bullish alignment with all moving averages trending upward.">>
         ELSE IF current_price < Val(sma_20) /\ Val(sma_20) < Val(sma_50)
                 /\ Val(sma_50) < Val(sma_200)
         THEN <<"Price structure indicates bearish alignment with all moving averages trending downward.">>
         ELSE IF Val(sma_50) > Val(sma_200)
         THEN <<"SMA50 above SMA200 indicates long-term strength.">>
         ELSE IF Val(sma_50) < Val(sma_200)
         THEN <<"SMA50 below SMA200 suggests long-term weakness.">>
         ELSE <<>>
    ELSE <<>>

\* Momentum Analysis
TrendMomentumRule(momentum) ==
    IF momentum = None THEN <<>>
    ELSE IF Val(momentum) > 10
         THEN <<"Strong upward momentum ({momentum:.1f}%) reflects positive investor sentiment.">>
    ELSE IF Val(momentum) < -10
         THEN <<"Negative momentum ({momentum:.1f}%) indicates weakening price action.">>
    ELSE IF -5 <= Val(momentum) /\ Val(momentum) <= 5
         THEN <<"Momentum is relatively stable, suggesting consolidation.">>
    ELSE <<>>

\* Volatility Analysis
TrendVolatilityRule(volatility) ==
    IF volatility = None THEN <<>>
    ELSE IF Val(volatility) > 30
         THEN <<"High volatility ({volatility:.1f}%) indicates significant price swings and market uncertainty.">>
    ELSE IF Val(volatility) < 15
         THEN <<"Low volatility ({volatility:.1f}%) suggests stable, predictable price movements.">>
    ELSE <<>>

\* Volume Analysis: volume_ratio > 1.5 and < 0.5, cross-multiplied
TrendVolumeRule(volume_avg, pd) ==
    IF volume_avg # None /\ volume_avg # <<>> /\ "Volume" \in pd.columns
    THEN LET current_volume == Last(pd.Volume)
             avg_volume == Last(volume_avg)
         IN  IF ~isna(avg_volume) /\ Val(avg_volume) > 0
             THEN IF current_volume * 2 > Val(avg_volume) * 3
                  THEN <<"Trading volume is significantly above average, indicating strong market interest.">>
                  ELSE IF current_volume * 2 < Val(avg_volume)
                  THEN <<"Below-average trading volume suggests limited market participation.">>
                  ELSE <<>>
             ELSE <<>>
    ELSE <<>>

\* Analyst Recommendations
TrendAnalystRule(recs) ==
    IF recs # <<>>
    THEN LET recent_recommendations == RecentRecommendations(recs)
             buy_count == GradeCount(recent_recommendations, BuyGrades)
             sell_count == GradeCount(recent_recommendations, SellGrades)
         IN  IF buy_count > 0 \/ sell_count > 0
             THEN IF buy_count > sell_count
                  THEN <<"Analyst sentiment is positive with {buy_count} recent buy recommendations.">>
                  ELSE IF sell_count > buy_count
                  THEN <<"Analyst sentiment is cautious with {sell_count} recent sell recommendations.">>
                  ELSE <<"Analyst recommendations are mixed.">>
             ELSE <<>>
    ELSE <<>>

\* News Sentiment
TrendNewsRule(news) ==
    IF news # <<>>
    THEN <<"Recent market news includes {len(news)} articles that may impact sentiment.">>
    ELSE <<>>

\* Company Info: info is None, or a dict that may hold a sector
TrendInfoRule(info) ==
    IF info # None /\ Get(info, "sector", "") # ""
    THEN <<"Operating in the {sector} sector.">>
    ELSE <<>>

generate_trend_summary(ind, pd, recs, news, info) ==
    IF TrendInsufficient(ind, pd)
    THEN <<"Insufficient data to generate trend summary for {ticker}.">>
    ELSE LET snapshot == Get(ind, "latest", <<>>)
             summary_parts ==
                 TrendPriceRule(pd, Get(snapshot, "current_price", 0))
                 \o TrendRsiRule(Get(snapshot, "rsi", None))
                 \o TrendAverageRule(Get(snapshot, "current_price", 0),
                                     Get(snapshot, "sma_20", None),
                                     Get(snapshot, "sma_50", None),
                                     Get(snapshot, "sma_200", None))
                 \o TrendMomentumRule(Get(snapshot, "momentum", None))
                 \o TrendVolatilityRule(Get(snapshot, "volatility", None))
                 \o TrendVolumeRule(Get(Get(ind, "indicators", <<>>), "volume_avg", None), pd)
                 \o TrendAnalystRule(recs)
                 \o TrendNewsRule(news)
                 \o TrendInfoRule(info)
         IN  IF summary_parts # <<>> THEN summary_parts
             ELSE <<"{ticker} shows mixed signals with no clear trend direction.">>

\* the news lists and company infos the dashboard hands over
TrendNews == {<<>>, <<[title |-> "t", link |-> "l"]>>}

TrendInfos == {None, [longName |-> "n"], [longName |-> "n", sector |-> "Technology"]}

TrendSummary ==
    /\ pc = "trend_summary"
    /\ \E news \in TrendNews, info \in TrendInfos :
           summary' = generate_trend_summary(indicators, price_data,
                                             recommendations, news, info)
    /\ pc' = "done"
    /\ UNCHANGED <<inputs, short, long, calculation, search, fetching, page, sentiments>>

(***************************************************************************)
(* The indicator functions of src/indicators.py.  A price series is a      *)
(* sequence of positive integers, a result series a sequence of values     *)
(* that may be missing.  Quotients are rounded down to whole units: SMA    *)
(* and EMA in price units, RSI in points, momentum and volatility in       *)
(* percent.                                                                *)
(***************************************************************************)
RECURSIVE SumOf(_, _, _)
\* xs[lo] + ... + xs[hi]
SumOf(xs, lo, hi) == IF lo > hi THEN 0 ELSE xs[hi] + SumOf(xs, lo, hi - 1)

\* the rolling mean over as many entries as there are so far
RollingMean_Partial(xs, window) ==
    [i \in DOMAIN xs |->
        IF i < window THEN Num(SumOf(xs, 1, i) \div i)
        ELSE Num(SumOf(xs, i - window + 1, i) \div window)]

\* xs.rolling(window=window).mean(): NaN until the window is full
RollingMean(xs, window) ==
    [i \in DOMAIN xs |->
        IF i < window THEN NaN
        ELSE Num(SumOf(xs, i - window + 1, i) \div window)]

\* data.rolling(window=window).mean()
calculate_sma(data, window) == RollingMean(data, window)

RECURSIVE EmaAt(_, _, _)
\* ewm(span=window, adjust=False): y[1] = x[1],
\* y[i] = (1 - a) * y[i-1] + a * x[i] with a = 2 / (window + 1)
EmaAt(data, window, i) ==
    IF i = 1 THEN data[1]
    ELSE ((window - 1) * EmaAt(data, window, i - 1) + 2 * data[i]) \div (window + 1)

\* data.ewm(span=window, adjust=False).mean(): no minimum number of periods
calculate_ema(data, window) == [i \in DOMAIN data |-> Num(EmaAt(data, window, i))]

\* data.diff(): NaN at the first position
diff(data) == [i \in DOMAIN data |-> IF i = 1 THEN NaN ELSE Num(data[i] - data[i - 1])]

\* delta.where(delta > 0, 0): a NaN delta fails the test and becomes 0
Gains(delta) ==
    [i \in DOMAIN delta |-> IF ~isna(delta[i]) /\ Val(delta[i]) > 0 THEN Val(delta[i]) ELSE 0]

\* -delta.where(delta < 0, 0)
Losses(delta) ==
    [i \in DOMAIN delta |-> IF ~isna(delta[i]) /\ Val(delta[i]) < 0 THEN -Val(delta[i]) ELSE 0]

\* the relative strength itself, in percent, taken for the index
RsiOf_Ratio(gain, loss) ==
    IF loss = 0
    THEN IF gain > 0 THEN Num(100) ELSE NaN
    ELSE Num((100 * gain) \div loss)

\* rs = gain / loss and 100 - (100 / (1 + rs)) on the two window sums, whose
\* ratio is the ratio of the means: x / 0 is inf for x > 0, giving 100, and
\* 0 / 0 is NaN
RsiOf(gain, loss) ==
    IF loss = 0
    THEN IF gain > 0 THEN Num(100) ELSE NaN
    ELSE Num((100 * gain) \div (gain + loss))

\* the RSI that is missing whenever the loss average is zero
calculate_rsi_NoLossIsMissing(data, window) ==
    LET delta == diff(data)
        gain == Gains(delta)
        loss == Losses(delta)
    IN  [i \in DOMAIN data |->
            IF i < window THEN NaN
            ELSE IF SumOf(loss, i - window + 1, i) = 0 THEN NaN
            ELSE RsiOf(SumOf(gain, i - window + 1, i), SumOf(loss, i - window + 1, i))]

calculate_rsi(data, window) ==
    LET delta == diff(data)
        gain == Gains(delta)
        loss == Losses(delta)
    IN  [i \in DOMAIN data |->
            IF i < window THEN NaN
            ELSE RsiOf(SumOf(gain, i - window + 1, i), SumOf(loss, i - window + 1, i))]

\* ((data / data.shift(window)) - 1) * 100
calculate_momentum(data, window) ==
    [i \in DOMAIN data |->
        IF i <= window THEN NaN
        ELSE Num(((data[i] * 100) \div data[i - window]) - 100)]

RECURSIVE IsqrtIn(_, _, _)
\* the largest r in lo .. hi with r * r <= n
IsqrtIn(n, lo, hi) ==
    IF lo >= hi THEN lo
    ELSE LET mid == (lo + hi + 1) \div 2
         IN  IF mid * mid <= n THEN IsqrtIn(n, mid, hi) ELSE IsqrtIn(n, lo, mid - 1)

\* np.sqrt, rounded down; 46340 is the largest root of a 32-bit integer
Isqrt(n) == IsqrtIn(n, 0, IF n < 46340 THEN n ELSE 46340)

\* data.pct_change(), in percent
pct_change(data) ==
    [i \in DOMAIN data |->
        IF i = 1 THEN NaN ELSE Num(((data[i] - data[i - 1]) * 100) \div data[i - 1])]

\* returns.rolling(window).std() * np.sqrt(252) * 100: the sample standard
\* deviation needs `window` defined returns and at least two of them
calculate_volatility(data, window) ==
    LET returns == pct_change(data)
        r == [i \in DOMAIN data |-> IF isna(returns[i]) THEN 0 ELSE Val(returns[i])]
        sq == [i \in DOMAIN data |-> r[i] * r[i]]
    IN  [i \in DOMAIN data |->
            IF i - window + 1 < 2 \/ window < 2 THEN NaN
            ELSE LET total == SumOf(r, i - window + 1, i)
                     squares == SumOf(sq, i - window + 1, i)
                     variance == (window * squares - total * total)
                                 \div (window * (window - 1))
                 IN  Num(Isqrt(variance * 252))]

(***************************************************************************)
(* calculate_all_indicators, as far as the signal engine reads its result: *)
(* the rolling series are inputs here, the `latest` snapshot and the error *)
(* result are built as the code builds them.                               *)
(***************************************************************************)
\* the `indicators` dict computed from the frame
IndicatorsOf(pd) ==
    [sma_20 |-> calculate_sma(pd.Close, 20),
     sma_50 |-> calculate_sma(pd.Close, 50),
     sma_200 |-> calculate_sma(pd.Close, 200),
     ema_12 |-> calculate_ema(pd.Close, 12),
     ema_26 |-> calculate_ema(pd.Close, 26),
     rsi |-> calculate_rsi(pd.Close, 14),
     volatility |-> calculate_volatility(pd.Close, 20),
     momentum |-> calculate_momentum(pd.Close, 10),
     volume_avg |-> IF "Volume" \in pd.columns THEN RollingMean(pd.Volume, 20)
                    ELSE None]

\* the snapshot taking the first entry of a series
LatestOf_First(series) == IF ~isna(series[1]) THEN series[1] ELSE None

\* series.iloc[-1] if not pd.isna(series.iloc[-1]) else None
LatestOf(series) == IF ~isna(Last(series)) THEN Last(series) ELSE None

calculate_all_indicators(pd, series) ==
    IF pd.Close = <<>> \/ "Close" \notin pd.columns
    THEN [error |-> "Invalid price data"]
    ELSE [indicators |-> series,
          latest |-> [current_price |-> Last(pd.Close),
                      sma_20 |-> LatestOf(series.sma_20),
                      sma_50 |-> LatestOf(series.sma_50),
                      sma_200 |-> LatestOf(series.sma_200),
                      rsi |-> LatestOf(series.rsi),
                      volatility |-> LatestOf(series.volatility),
                      momentum |-> LatestOf(series.momentum)],
          success |-> TRUE]

(***************************************************************************)
(* The inputs of one dashboard run.  Every series is known by its tail:    *)
(* the last two rows, or the only row of a one-row history.                *)
(***************************************************************************)
Nums(S) == {Num(v) : v \in S}

PriceGrid == {0} \cup ((100 - Spread) .. (100 + Spread))

NearPrices == {99, 100, 101}

SmaVals == {NaN, Num(100)}

RsiVals == {NaN} \cup Nums({29, 30, 40, 41, 59, 60, 70, 71})

ShortMomVals == {NaN} \cup Nums({-6, -5, 5, 6})

LongMomVals == {NaN} \cup Nums({-11, -10, 10, 11})

\* a grade as the provider spells it
Grade(name) ==
    CASE name = "Buy" -> <<"B", "u", "y">>
      [] name = "BUY" -> <<"B", "U", "Y">>
      [] name = "strong buy" -> <<"s", "t", "r", "o", "n", "g", " ", "b", "u", "y">>
      [] name = "Outperform" -> <<"O", "u", "t", "p", "e", "r", "f", "o", "r", "m">>
      [] name = "Sell" -> <<"S", "e", "l", "l">>
      [] name = "Strong Sell" -> <<"S", "t", "r", "o", "n", "g", " ", "S", "e", "l", "l">>
      [] name = "underperform" -> <<"u", "n", "d", "e", "r", "p", "e", "r", "f", "o", "r", "m">>
      [] name = "Hold" -> <<"H", "o", "l", "d">>
      [] name = "Neutral" -> <<"N", "e", "u", "t", "r", "a", "l">>
      [] name = "Buyer" -> <<"B", "u", "y", "e", "r">>

Rec(name) == [firm |-> "firm", toGrade |-> Grade(name)]

\* a record the provider sent without a toGrade
NoGradeRec == [firm |-> "firm"]

CoreRecs == {Rec("Buy"), Rec("Sell"), Rec("Hold")}

AllRecs == {Rec(n) : n \in {"Buy", "BUY", "strong buy", "Outperform", "Sell",
                            "Strong Sell", "underperform", "Hold", "Buyer"}}
           \cup {NoGradeRec}

SeqsUpTo(S, n) == UNION {[1 .. k -> S] : k \in 0 .. n}

RecLists == SeqsUpTo(CoreRecs, MaxRecs) \cup SeqsUpTo(AllRecs, 2)

FewRecLists == {<<>>, <<Rec("Buy")>>, <<Rec("Sell")>>}

Frame(close, hasVolume, volume) ==
    [columns |-> {"Close"} \cup (IF hasVolume THEN {"Volume"} ELSE {}),
     Close |-> close,
     Volume |-> IF hasVolume THEN <<volume, volume>> ELSE <<>>]

\* 'volume_avg' is None when the frame has no Volume column
SeriesOf(s20, s50, s200, rsi, mom, hasVolume, vavg) ==
    [sma_20 |-> s20, sma_50 |-> s50, sma_200 |-> s200,
     rsi |-> <<NaN, rsi>>, volatility |-> <<NaN, NaN>>, momentum |-> <<NaN, mom>>,
     volume_avg |-> IF hasVolume THEN <<NaN, vavg>> ELSE None]

\* search_stocks is not being called
NoSearch ==
    /\ search_query = <<>>
    /\ search_limit = 0
    /\ stock_options = <<>>
    /\ search_pc = "return"

NoLocals == [hist |-> Frame(<<>>, FALSE, 0), info |-> <<>>,
             recommendations |-> <<>>, news |-> <<>>, news_items |-> <<>>]

\* the provider has not been asked for anything
NoAnswers == [history |-> <<>>, info |-> <<>>, recommendations |-> <<>>]

\* get_stock_data is not being called
NoFetch ==
    /\ fetch_pc = "returned"
    /\ fetch = NoLocals
    /\ attempts = <<>>
    /\ answers = NoAnswers
    /\ stock_data = [error |-> "", success |-> FALSE]

\* the sidebar widgets as a new session shows them: an empty search box, the
\* dropdown and the manual ticker box untouched, the period at index 3
DefaultWidgets == [search_query |-> <<>>, selected_option |-> <<>>,
                   ticker_input |-> <<>>, period_select |-> "1y"]

\* the locals of main() before the script has run
NoMain == [selectbox_options |-> <<>>, current_ticker |-> <<>>, current_index |-> 0,
           selected_option |-> <<>>, ticker_input |-> <<>>,
           period_select |-> "", pressed |-> FALSE,
           ticker |-> <<>>, period |-> ""]

\* no script run of main() is under way
NoPage ==
    /\ session_state = <<>>
    /\ widgets = DefaultWidgets
    /\ main_pc = "end"
    /\ main = NoMain
    /\ rendered = <<>>

\* get_market_sentiment is not being called
NoSentiment ==
    /\ sentiment_news = <<>>
    /\ sentiment_recs = <<>>
    /\ sentiment = [news_count |-> 0, recommendation_summary |-> <<>>]

\* no indicator function is being called on its own
NoCalculation ==
    /\ close_series = <<>>
    /\ window_size = 1
    /\ computed = [function |-> "", values |-> <<>>]

Start(pd, series, recs) ==
    /\ price_data = pd
    /\ indicators = calculate_all_indicators(pd, series)
    /\ recommendations = recs
    /\ pc = "short_start"
    /\ short = Fresh
    /\ long = Fresh
    /\ summary = <<>>
    /\ NoCalculation
    /\ NoSearch
    /\ NoFetch
    /\ NoPage
    /\ NoSentiment

NoSeries == SeriesOf(<<NaN>>, <<NaN>>, <<NaN>>, NaN, NaN, FALSE, NaN)

\* no usable price data: an empty frame, or a frame without a Close column
InitFailed ==
    \E recs \in FewRecLists :
        \/ Start([columns |-> {"Close"}, Close |-> <<>>, Volume |-> <<>>], NoSeries, recs)
        \/ Start([columns |-> {"Volume"}, Close |-> <<>>, Volume |-> <<5, 5>>], NoSeries, recs)

\* a one-row history: no window is full
InitOneRow ==
    \E cur \in PriceGrid, hasVolume \in BOOLEAN :
        Start([columns |-> {"Close"} \cup (IF hasVolume THEN {"Volume"} ELSE {}),
               Close |-> <<cur>>,
               Volume |-> IF hasVolume THEN <<4>> ELSE <<>>],
              [sma_20 |-> <<NaN>>, sma_50 |-> <<NaN>>, sma_200 |-> <<NaN>>,
               rsi |-> <<NaN>>, volatility |-> <<NaN>>, momentum |-> <<NaN>>,
               volume_avg |-> IF hasVolume THEN <<NaN>> ELSE None],
              <<>>)

\* the inputs of the short-term rules
InitShort ==
    \E cur \in PriceGrid, prev \in NearPrices, s20 \in SmaVals, p20 \in SmaVals,
       rsi \in RsiVals, mom \in ShortMomVals, hasVolume \in BOOLEAN :
        Start(Frame(<<prev, cur>>, hasVolume, 4),
              SeriesOf(<<p20, s20>>, <<NaN, NaN>>, <<NaN, NaN>>, rsi, mom, hasVolume, Num(2)),
              <<>>)

\* the inputs of the volume note
InitVolume ==
    \E rsi \in {NaN, Num(29), Num(71)}, mom \in {NaN, Num(6), Num(-6)},
       hasVolume \in BOOLEAN, volume \in {0, 3, 4}, vavg \in {NaN, Num(0), Num(2)} :
        Start(Frame(<<100, 100>>, hasVolume, volume),
              SeriesOf(<<Num(100), Num(100)>>, <<NaN, NaN>>, <<NaN, NaN>>,
                       rsi, mom, hasVolume, vavg),
              <<>>)

\* the inputs of the long-term rules
InitLong ==
    \E cur \in {0} \cup NearPrices, s200 \in SmaVals, p200 \in SmaVals,
       s50 \in {NaN} \cup Nums(NearPrices), p50 \in {NaN} \cup Nums(NearPrices),
       mom \in LongMomVals, recs \in FewRecLists :
        Start(Frame(<<100, cur>>, FALSE, 0),
              SeriesOf(<<NaN, NaN>>, <<p50, s50>>, <<p200, s200>>, NaN, mom, FALSE, NaN),
              recs)

\* the analyst records
InitAnalyst ==
    \E recs \in RecLists, cur \in {99, 101}, s200 \in SmaVals :
        Start(Frame(<<100, cur>>, FALSE, 0),
              SeriesOf(<<NaN, NaN>>, <<NaN, NaN>>, <<Num(100), s200>>, NaN, NaN, FALSE, NaN),
              recs)

\* every subset of the five indicators missing
InitMissing ==
    \E cur \in {97, 103}, s20 \in SmaVals, s50 \in {NaN, Num(101)}, s200 \in SmaVals,
       rsi \in {NaN, Num(29), Num(71)}, mom \in {NaN, Num(11), Num(-11)} :
        Start(Frame(<<100, cur>>, TRUE, 4),
              SeriesOf(<<Num(100), s20>>, <<Num(100), s50>>, <<Num(100), s200>>,
                       rsi, mom, TRUE, Num(2)),
              <<Rec("Buy")>>)

\* a history of `n` equal closes after one lower close
FlatTail(n) == [i \in 1 .. n + 1 |-> IF i = 1 THEN 100 ELSE 101]

Rising(n) == [i \in 1 .. n |-> 100 + i]

Falling(n) == [i \in 1 .. n |-> 200 - i]

\* histories whose indicator series are computed from the closes: every
\* history of up to three closes, and longer ones around the 14-row RSI
\* window and the 20-row SMA and volatility windows
Histories ==
    (SeqsUpTo({80, 90, 100}, 3) \ {<<>>})
    \cup {FlatTail(13), FlatTail(14), FlatTail(15), Rising(16), Falling(16),
          Rising(21), Falling(22)}

InitComputed ==
    \E close \in Histories, hasVolume \in BOOLEAN :
        LET pd == [columns |-> {"Close"} \cup (IF hasVolume THEN {"Volume"} ELSE {}),
                   Close |-> close,
                   Volume |-> IF hasVolume THEN [i \in DOMAIN close |-> 4] ELSE <<>>]
        IN  Start(pd, IndicatorsOf(pd), <<>>)

Init ==
    \/ InitFailed
    \/ InitOneRow
    \/ InitShort
    \/ InitVolume
    \/ InitLong
    \/ InitAnalyst
    \/ InitMissing
    \/ InitComputed

Next ==
    \/ ShortInsufficient
    \/ ShortRsi
    \/ ShortSma20
    \/ ShortMomentum
    \/ ShortVolume
    \/ ShortDecide
    \/ LongInsufficient
    \/ LongSma200
    \/ LongCross
    \/ LongMomentum
    \/ LongAnalyst
    \/ LongDecide
    \/ TrendSummary

Spec == Init /\ [][Next]_vars

(***************************************************************************)
(* The indicator functions called on their own: any short series of small  *)
(* positive closes, any small window, any of the five functions.           *)
(***************************************************************************)
\* closes range over 1 .. MaxClose
MaxClose == 3
\* the longest series
MaxLen == 4
\* windows range over 1 .. MaxWindow
MaxWindow == 3

\* no dashboard run is under way
NoDashboard ==
    /\ price_data = [columns |-> {"Close"}, Close |-> <<>>, Volume |-> <<>>]
    /\ indicators = [error |-> "Invalid price data"]
    /\ recommendations = <<>>
    /\ pc = "done"
    /\ short = Fresh
    /\ long = Fresh
    /\ summary = <<>>

InitCalc ==
    /\ close_series \in SeqsUpTo(1 .. MaxClose, MaxLen)
    /\ window_size \in 1 .. MaxWindow
    /\ computed = [function |-> "", values |-> <<>>]
    /\ NoDashboard
    /\ NoSearch
    /\ NoFetch
    /\ NoPage
    /\ NoSentiment

\* the call returns `values`
Returned(function, values) == computed' = [function |-> function, values |-> values]

CalcSma ==
    /\ Returned("calculate_sma", calculate_sma(close_series, window_size))
    /\ UNCHANGED <<close_series, window_size, dashboard, search, fetching, page, sentiments>>

CalcEma ==
    /\ Returned("calculate_ema", calculate_ema(close_series, window_size))
    /\ UNCHANGED <<close_series, window_size, dashboard, search, fetching, page, sentiments>>

CalcRsi ==
    /\ Returned("calculate_rsi", calculate_rsi(close_series, window_size))
    /\ UNCHANGED <<close_series, window_size, dashboard, search, fetching, page, sentiments>>

CalcVolatility ==
    /\ Returned("calculate_volatility", calculate_volatility(close_series, window_size))
    /\ UNCHANGED <<close_series, window_size, dashboard, search, fetching, page, sentiments>>

CalcMomentum ==
    /\ Returned("calculate_momentum", calculate_momentum(close_series, window_size))
    /\ UNCHANGED <<close_series, window_size, dashboard, search, fetching, page, sentiments>>

NextCalc ==
    \/ CalcSma
    \/ CalcEma
    \/ CalcRsi
    \/ CalcVolatility
    \/ CalcMomentum

CalcSpec == InitCalc /\ [][NextCalc]_vars

(***************************************************************************)
(* search_stocks of src/stock_search.py.  Tickers, names and queries are   *)
(* sequences of characters, so that upper(), lower(), strip(), startswith  *)
(* and `in` are computed character by character.                           *)
(***************************************************************************)
\* eight entries of the directory, in the order the dict holds them
POPULAR_STOCKS == <<
    [ticker |-> <<"A", "A", "P", "L">>,
     name |-> <<"A", "p", "p", "l", "e", " ", "I", "n", "c", ".">>,
     sector |-> "Technology"],
    [ticker |-> <<"M", "S", "F", "T">>,
     name |-> <<"M", "i", "c", "r", "o", "s", "o", "f", "t", " ", "C", "o",
              "r", "p", "o", "r", "a", "t", "i", "o", "n">>,
     sector |-> "Technology"],
    [ticker |-> <<"A", "M", "Z", "N">>,
     name |-> <<"A", "m", "a", "z", "o", "n", ".", "c", "o", "m", " ", "I",
              "n", "c", ".">>,
     sector |-> "Consumer Cyclical"],
    [ticker |-> <<"T", "S", "L", "A">>,
     name |-> <<"T", "e", "s", "l", "a", " ", "I", "n", "c", ".">>,
     sector |-> "Consumer Cyclical"],
    [ticker |-> <<"A", "M", "D">>,
     name |-> <<"A", "d", "v", "a", "n", "c", "e", "d", " ", "M", "i", "c",
              "r", "o", " ", "D", "e", "v", "i", "c", "e", "s">>,
     sector |-> "Technology"],
    [ticker |-> <<"M", "S">>,
     name |-> <<"M", "o", "r", "g", "a", "n", " ", "S", "t", "a", "n", "l",
              "e", "y">>,
     sector |-> "Financial Services"],
    [ticker |-> <<"T">>,
     name |-> <<"A", "T", "&", "T", " ", "I", "n", "c", ".">>,
     sector |-> "Communication Services"],
    [ticker |-> <<"M", "A">>,
     name |-> <<"M", "a", "s", "t", "e", "r", "c", "a", "r", "d", " ", "I",
              "n", "c", "o", "r", "p", "o", "r", "a", "t", "e", "d">>,
     sector |-> "Financial Services"]
>>

LowerChar(c) == IF \E i \in DOMAIN UpperCase : UpperCase[i] = c
                THEN LowerCase[CHOOSE i \in DOMAIN UpperCase : UpperCase[i] = c]
                ELSE c

lower(str) == [i \in DOMAIN str |-> LowerChar(str[i])]

RECURSIVE lstrip(_)
lstrip(str) == IF str # <<>> /\ Head(str) = " " THEN lstrip(Tail(str)) ELSE str

RECURSIVE rstrip(_)
rstrip(str) ==
    IF str # <<>> /\ Last(str) = " " THEN rstrip(SubSeq(str, 1, Len(str) - 1)) ELSE str

\* str.strip()
strip(str) == rstrip(lstrip(str))

\* str.startswith(prefix)
startswith(str, prefix) ==
    Len(prefix) <= Len(str) /\ SubSeq(str, 1, Len(prefix)) = prefix

\* sub in str
Contains(str, sub) ==
    \E i \in 0 .. Len(str) - Len(sub) : SubSeq(str, i + 1, i + Len(sub)) = sub

\* the position of a capital letter in the alphabet, 0 for any other character
CharRank(c) == IF \E i \in DOMAIN UpperCase : UpperCase[i] = c
               THEN CHOOSE i \in DOMAIN UpperCase : UpperCase[i] = c
               ELSE 0

RECURSIVE StrLess(_, _)
\* a < b for two strings
StrLess(a, b) ==
    IF b = <<>> THEN FALSE
    ELSE IF a = <<>> THEN TRUE
    ELSE IF Head(a) # Head(b) THEN CharRank(Head(a)) < CharRank(Head(b))
    ELSE StrLess(Tail(a), Tail(b))

\* priority = {"ticker_exact": 0, "ticker_prefix": 1, "name_match": 2}
priority(match_type) ==
    CASE match_type = "ticker_exact" -> 0
      [] match_type = "ticker_prefix" -> 1
      [] match_type = "name_match" -> 2
      [] OTHER -> 3

\* the sort key comparing tickers alone
KeyLess_TickerOnly(x, y) == StrLess(x.ticker, y.ticker)

\* key(x) < key(y) for key = (priority[match_type], ticker)
KeyLess(x, y) ==
    \/ priority(x.match_type) < priority(y.match_type)
    \/ /\ priority(x.match_type) = priority(y.match_type)
       /\ StrLess(x.ticker, y.ticker)

RECURSIVE Insert(_, _)
\* x put behind every entry whose key is not above its own
Insert(sorted, x) ==
    IF sorted = <<>> THEN <<x>>
    ELSE IF KeyLess(x, Head(sorted)) THEN <<x>> \o sorted
    ELSE <<Head(sorted)>> \o Insert(Tail(sorted), x)

RECURSIVE Sort(_)
\* results.sort(key=...): a stable sort
Sort(xs) == IF xs = <<>> THEN <<>>
            ELSE Insert(Sort(SubSeq(xs, 1, Len(xs) - 1)), Last(xs))

Match(entry, match_type) ==
    [ticker |-> entry.ticker, name |-> entry.name, sector |-> entry.sector,
     match_type |-> match_type]

\* the entries of a list of directory entries, each with its match type
Tagged(entries, match_type) ==
    [i \in DOMAIN entries |-> Match(entries[i], match_type)]

\* the first slice taking the last entries
Slice_Last(xs, limit) ==
    IF limit >= 0
    THEN SubSeq(xs, Len(xs) - (IF limit < Len(xs) THEN limit ELSE Len(xs)) + 1, Len(xs))
    ELSE SubSeq(xs, 1, IF Len(xs) + limit > 0 THEN Len(xs) + limit ELSE 0)

\* xs[:limit]: a negative limit counts from the end
Slice(xs, limit) ==
    IF limit >= 0
    THEN SubSeq(xs, 1, IF limit < Len(xs) THEN limit ELSE Len(xs))
    ELSE SubSeq(xs, 1, IF Len(xs) + limit > 0 THEN Len(xs) + limit ELSE 0)

\* the results list before it is sorted and cut
Matches(query) ==
    LET query_upper == strip(upper(query))
        query_lower == strip(lower(query))
        IsExact(e) == e.ticker = query_upper
        IsPrefix(e) == startswith(e.ticker, query_upper) /\ e.ticker # query_upper
        exact == Tagged(SelectSeq(POPULAR_STOCKS, IsExact), "ticker_exact")
        prefix == Tagged(SelectSeq(POPULAR_STOCKS, IsPrefix), "ticker_prefix")
        found == {r.ticker : r \in Range(exact \o prefix)}
        IsName(e) == Contains(lower(e.name), query_lower) /\ e.ticker \notin found
    IN  exact \o prefix \o Tagged(SelectSeq(POPULAR_STOCKS, IsName), "name_match")

\* the ranked list before it is cut to `limit`
Ranked(query) == Sort(Matches(query))

search_stocks(query, limit) ==
    IF query = <<>> THEN <<>>
    ELSE Slice(Ranked(query), limit)

\* queries are strings of up to MaxQuery characters
MaxQuery == 3
\* limits range over -MaxLimit .. MaxLimit
MaxLimit == 8

QueryChars == {"a", "m", "s", "t", "M", " "}

InitSearch ==
    /\ search_query \in SeqsUpTo(QueryChars, MaxQuery)
    /\ search_limit \in (-MaxLimit) .. MaxLimit
    /\ stock_options = <<>>
    /\ search_pc = "call"
    /\ NoDashboard
    /\ NoCalculation
    /\ NoFetch
    /\ NoPage
    /\ NoSentiment

\* if not query: return []
SearchBlank ==
    /\ search_pc = "call"
    /\ search_query = <<>>
    /\ stock_options' = search_stocks(search_query, search_limit)
    /\ search_pc' = "return"
    /\ UNCHANGED <<search_query, search_limit, dashboard, calculation, fetching, page, sentiments>>

SearchRanked ==
    /\ search_pc = "call"
    /\ search_query # <<>>
    /\ stock_options' = search_stocks(search_query, search_limit)
    /\ search_pc' = "return"
    /\ UNCHANGED <<search_query, search_limit, dashboard, calculation, fetching, page, sentiments>>

NextSearch ==
    \/ SearchBlank
    \/ SearchRanked

SearchSpec == InitSearch /\ [][NextSearch]_vars

(***************************************************************************)
(* get_stock_data of src/data_fetcher.py and its news chain.  What a       *)
(* provider answers is chosen when the provider is asked: it raises, or    *)
(* it answers with a list of entries, each usable (it has the title and    *)
(* the link the source asks for) or not.                                   *)
(***************************************************************************)
\* the length of a feed longer than the ten entries a source reads
LongFeed == 12

Entry(source, id, usable) == [source |-> source, id |-> id, usable |-> usable]

Feeds(source) ==
    { <<>>,
      <<Entry(source, 1, FALSE)>>,
      <<Entry(source, 1, TRUE)>>,
      <<Entry(source, 1, FALSE), Entry(source, 2, TRUE)>>,
      [i \in 1 .. LongFeed |-> Entry(source, i, TRUE)] }

Responses(source) ==
    {[raises |-> TRUE, entries |-> <<>>]}
    \cup {[raises |-> FALSE, entries |-> f] : f \in Feeds(source)}

\* requests.get answers with a status code as well
ScrapeResponses ==
    {[raises |-> TRUE, status |-> 0, entries |-> <<>>],
     [raises |-> FALSE, status |-> 404, entries |-> <<>>]}
    \cup {[raises |-> FALSE, status |-> 200, entries |-> f] : f \in Feeds("html_scrape")}

\* stock.history(period): it raises, or it answers with a frame
HistResponses ==
    {[raises |-> TRUE, frame |-> Frame(<<>>, FALSE, 0)],
     [raises |-> FALSE, frame |-> Frame(<<>>, FALSE, 0)],
     [raises |-> FALSE, frame |-> Frame(<<100, 101>>, TRUE, 4)],
     [raises |-> FALSE,
      frame |-> [columns |-> {"Volume"}, Close |-> <<>>, Volume |-> <<5, 5>>]]}

\* stock.info: it raises, or it answers with a dict
InfoResponses ==
    {[raises |-> TRUE, dict |-> <<>>],
     [raises |-> FALSE, dict |-> [sector |-> "Technology"]],
     [raises |-> FALSE, dict |-> [longName |-> "n", sector |-> "Technology"]]}

\* stock.recommendations: it raises, or it answers with None or a frame
RecResponses ==
    {[raises |-> TRUE, records |-> <<>>],
     [raises |-> FALSE, records |-> <<>>],
     [raises |-> FALSE, records |-> <<Rec("Buy")>>],
     [raises |-> FALSE, records |-> [i \in 1 .. LongFeed |-> Rec("Buy")]]}

\* the whole list, however long
First10_All(xs) == xs

\* xs[:10]
First10(xs) == SubSeq(xs, 1, IF Len(xs) < 10 THEN Len(xs) ELSE 10)

\* xs.tail(10)
Tail10(xs) == SubSeq(xs, IF Len(xs) > 10 THEN Len(xs) - 9 ELSE 1, Len(xs))

IsUsable(e) == e.usable

\* the entries a source appends: those with a title and a link
Usable(xs) == SelectSeq(xs, IsUsable)

\* the chain going on to the next source whatever the last one produced
Continue_Always(kept, next) == next

\* the call given up after a source that produced nothing
Continue_AbortOnEmpty(kept, next) == IF kept # <<>> THEN "return" ELSE "returned"

\* `if not news:` / `if not news_items:` / `break`: the next source is asked
\* only after an empty result
Continue(kept, next) == IF kept # <<>> THEN "return" ELSE next

\* one source asked: what it answered and what was kept of it
Asked(source, response, kept) ==
    attempts' = Append(attempts, [source |-> source, response |-> response, kept |-> kept])

InitFetch ==
    /\ fetch_pc = "history"
    /\ fetch = NoLocals
    /\ attempts = <<>>
    /\ answers = NoAnswers
    /\ stock_data = [error |-> "", success |-> FALSE]
    /\ NoDashboard
    /\ NoCalculation
    /\ NoSearch
    /\ NoPage
    /\ NoSentiment

\* the outer except marking its result successful
Failed_MarkedSuccessful ==
    [error |-> "Error fetching data for {ticker}: {str(e)}", success |-> TRUE]

\* the return of the outer except
Failed == [error |-> "Error fetching data for {ticker}: {str(e)}", success |-> FALSE]

\* history, info, current price and recommendations; each is asked of the
\* provider only when the call gets as far as its line
FetchHistory ==
    /\ fetch_pc = "history"
    /\ \E h \in HistResponses, i \in InfoResponses, r \in RecResponses :
          IF h.raises
          THEN /\ answers' = [NoAnswers EXCEPT !.history = <<h>>]
               /\ stock_data' = Failed /\ fetch_pc' = "returned" /\ UNCHANGED fetch
          ELSE IF empty(h.frame)
          THEN /\ answers' = [NoAnswers EXCEPT !.history = <<h>>]
               /\ stock_data' = [error |-> "No data found for ticker {ticker}"]
               /\ fetch_pc' = "returned"
               /\ UNCHANGED fetch
          ELSE IF i.raises \/ "Close" \notin h.frame.columns
          THEN /\ answers' = [NoAnswers EXCEPT !.history = <<h>>, !.info = <<i>>]
               /\ stock_data' = Failed /\ fetch_pc' = "returned" /\ UNCHANGED fetch
          ELSE /\ answers' = [history |-> <<h>>, info |-> <<i>>,
                              recommendations |-> <<r>>]
               /\ fetch' = [fetch EXCEPT
                              !.hist = h.frame,
                              !.info = i.dict,
                              !.recommendations =
                                  IF r.raises THEN <<>> ELSE Tail10(r.records)]
               /\ fetch_pc' = "news_api"
               /\ UNCHANGED stock_data
    /\ UNCHANGED <<attempts, dashboard, calculation, search, page, sentiments>>

\* Try yfinance news first (primary source)
NewsApi ==
    /\ fetch_pc = "news_api"
    /\ \E response \in Responses("news_api") :
          LET kept == IF response.raises THEN <<>>
                      ELSE Usable(First10(response.entries))
          IN  /\ Asked("news_api", response, kept)
              /\ fetch' = [fetch EXCEPT !.news = kept]
              /\ fetch_pc' = Continue(kept, "yahoo_rss_1")
    /\ UNCHANGED <<answers, stock_data, dashboard, calculation, search, page, sentiments>>

\* one feed of fetch_yahoo_finance_news is asked; its result is cut to ten
\* items when the function returns it
RssFeed(source, next) ==
    \E response \in Responses(source) :
        LET kept == IF response.raises THEN <<>>
                    ELSE Usable(First10(response.entries))
        IN  /\ Asked(source, response, kept)
            /\ fetch' = [fetch EXCEPT !.news_items = kept,
                                      !.news = First10(kept)]
            /\ fetch_pc' = Continue(kept, next)

\* the first Yahoo Finance RSS address
YahooRss1 ==
    /\ fetch_pc = "yahoo_rss_1"
    /\ RssFeed("yahoo_rss_1", "yahoo_rss_2")
    /\ UNCHANGED <<answers, stock_data, dashboard, calculation, search, page, sentiments>>

\* the second Yahoo Finance RSS address
YahooRss2 ==
    /\ fetch_pc = "yahoo_rss_2"
    /\ RssFeed("yahoo_rss_2", "google_rss")
    /\ UNCHANGED <<answers, stock_data, dashboard, calculation, search, page, sentiments>>

\* If no Yahoo Finance news, try Google News RSS
GoogleRss ==
    /\ fetch_pc = "google_rss"
    /\ RssFeed("google_rss", "html_scrape")
    /\ UNCHANGED <<answers, stock_data, dashboard, calculation, search, page, sentiments>>

\* fetch_stock_news_alternative: the Yahoo Finance news page
HtmlScrape ==
    /\ fetch_pc = "html_scrape"
    /\ \E response \in ScrapeResponses :
          LET kept == IF response.raises \/ response.status # 200 THEN <<>>
                      ELSE Usable(First10(response.entries))
          IN  /\ Asked("html_scrape", response, kept)
              /\ fetch' = [fetch EXCEPT !.news_items = kept,
                                        !.news = First10(kept)]
              /\ fetch_pc' = Continue(kept, "google_rss_again")
    /\ UNCHANGED <<answers, stock_data, dashboard, calculation, search, page, sentiments>>

\* fetch_stock_news_alternative: Google News RSS once more, searched by
\* company name; every entry is appended, with or without title and link
GoogleRssAgain ==
    /\ fetch_pc = "google_rss_again"
    /\ \E response \in Responses("google_rss_again") :
          LET kept == IF response.raises THEN <<>> ELSE First10(response.entries)
          IN  /\ Asked("google_rss_again", response, kept)
              /\ fetch' = [fetch EXCEPT !.news_items = kept,
                                        !.news = First10(kept)]
              /\ fetch_pc' = "return"
    /\ UNCHANGED <<answers, stock_data, dashboard, calculation, search, page, sentiments>>

FetchReturn ==
    /\ fetch_pc = "return"
    /\ stock_data' = [ticker |-> "{ticker.upper()}",
                      price_data |-> fetch.hist,
                      current_price |-> Last(fetch.hist.Close),
                      info |-> fetch.info,
                      recommendations |-> fetch.recommendations,
                      news |-> fetch.news,
                      history |-> fetch.hist,
                      success |-> TRUE]
    /\ fetch_pc' = "returned"
    /\ UNCHANGED <<fetch, attempts, answers, dashboard, calculation, search, page, sentiments>>

NextFetch ==
    \/ FetchHistory
    \/ NewsApi
    \/ YahooRss1
    \/ YahooRss2
    \/ GoogleRss
    \/ HtmlScrape
    \/ GoogleRssAgain
    \/ FetchReturn

FetchSpec == InitFetch /\ [][NextFetch]_vars

(***************************************************************************)
(* What the properties below read.                                         *)
(***************************************************************************)
\* the elements a step appended to a list
Added(before, after) == SubSeq(after, Len(before) + 1, Len(after))

AfterShort == {"long_start", "long_cross", "long_momentum", "long_analyst",
               "long_decide", "trend_summary", "done"}

AfterLong == {"trend_summary", "done"}

rsi == Get(latest, "rsi", None)

momentum == Get(latest, "momentum", None)

sma_20 == Get(latest, "sma_20", None)

sma_50 == Get(latest, "sma_50", None)

sma_200 == Get(latest, "sma_200", None)

current_price == Get(latest, "current_price", 0)

(***************************************************************************)
(* C1: generate_short_term_signal returns BUY exactly when buy_score >     *)
(* sell_score and buy_score >= 2, SELL exactly when sell_score > buy_score *)
(* and sell_score >= 2, and HOLD otherwise; a tie of the scores is HOLD.   *)
(***************************************************************************)
C1_ShortDecisionTable ==
    (success /\ short.signal # "") =>
        LET b == short.buy_score
            s == short.sell_score
        IN  /\ short.signal \in {"BUY", "SELL", "HOLD"}
            /\ (short.signal = "BUY") <=> (b > s /\ b >= 2)
            /\ (short.signal = "SELL") <=> (s > b /\ s >= 2)
            /\ (b = s) => (short.signal = "HOLD")

\* a tie at 2 or more points each is returned as HOLD
C1_TieIsHold ==
    /\ success
    /\ short.signal = "HOLD"
    /\ short.buy_score = short.sell_score
    /\ short.buy_score >= 2

(***************************************************************************)
(* C2: generate_long_term_signal returns BUY if buy_score >= 4, else SELL  *)
(* if sell_score >= 4, else HOLD (Bullish) / HOLD (Bearish) for the side   *)
(* that leads, else HOLD; 4 against 0 is BUY, 3 against less than 3 is     *)
(* HOLD (Bullish).                                                         *)
(***************************************************************************)
C2_LongDecisionTable ==
    (success /\ long.signal # "") =>
        LET b == long.buy_score
            s == long.sell_score
        IN  /\ (b >= 4) => (long.signal = "BUY")
            /\ (b < 4 /\ s >= 4) => (long.signal = "SELL")
            /\ (b < 4 /\ s < 4 /\ b > s) => (long.signal = "HOLD (Bullish)")
            /\ (b < 4 /\ s < 4 /\ s > b) => (long.signal = "HOLD (Bearish)")
            /\ (b < 4 /\ s < 4 /\ b = s) => (long.signal = "HOLD")
            /\ (b = 4 /\ s = 0) => (long.signal = "BUY")
            /\ (b = 3 /\ s < 3) => (long.signal = "HOLD (Bullish)")

\* 3 buy points against fewer sell points came back as HOLD (Bullish)
C2_ThreeIsBullishHold ==
    /\ success
    /\ long.signal = "HOLD (Bullish)"
    /\ long.buy_score = 3
    /\ long.sell_score < 3

(***************************************************************************)
(* C3: with the latest RSI defined, the RSI rule of the short-term signal  *)
(* adds exactly one of +2 buy (RSI < 30), +2 sell (RSI > 70), +1 buy       *)
(* (30 <= RSI <= 40), +1 sell (60 <= RSI <= 70), or nothing                *)
(* (40 < RSI < 60), and never adds to both scores.  The RSI rule is the    *)
(* first: after it the scores are its contribution.                        *)
(***************************************************************************)
C3_RsiRule ==
    (pc = "short_sma20" /\ rsi # None) =>
        LET r == Val(rsi)
            b == short.buy_score
            s == short.sell_score
        IN  /\ (r < 30) => (b = 2 /\ s = 0)
            /\ (r > 70) => (b = 0 /\ s = 2)
            /\ (30 <= r /\ r <= 40) => (b = 1 /\ s = 0)
            /\ (60 <= r /\ r <= 70) => (b = 0 /\ s = 1)
            /\ (40 < r /\ r < 60) => (b = 0 /\ s = 0)
            /\ ~(b > 0 /\ s > 0)
            /\ Len(short.reasons) = (IF b + s > 0 THEN 1 ELSE 0)

\* an RSI of exactly 40 scored one buy point
C3_RsiAtForty ==
    /\ pc = "short_sma20"
    /\ rsi = Num(40)
    /\ short.buy_score = 1
    /\ short.sell_score = 0

\* the outcome table of the SMA20 rule, for the points db and ds it added
Sma20Outcome(db, ds) ==
    LET cur == current_price
        sma == Val(sma_20)
        prev == Prev(price_data.Close)
        psma == Prev(indicator_series.sma_20)
        up == ~isna(psma) /\ prev <= Val(psma) /\ cur > sma
        down == ~isna(psma) /\ prev >= Val(psma) /\ cur < sma
    IN  /\ up => (db = 2 /\ ds = 0)
        /\ down => (db = 0 /\ ds = 2)
        /\ (~up /\ ~down) =>
              /\ (cur * 100 > sma * 102) => (db = 1 /\ ds = 0)
              /\ (cur * 100 < sma * 98) => (db = 0 /\ ds = 1)
              /\ (cur * 100 <= sma * 102 /\ cur * 100 >= sma * 98) => (db = 0 /\ ds = 0)
        /\ ~(db > 0 /\ ds > 0)

\* C4 as stated: whenever SMA20 is defined, whatever the current price, a
\* crossover up adds +2 buy, a crossover down adds +2 sell, and only without
\* a crossover +1 buy above 1.02 x SMA20 or +1 sell below 0.98 x SMA20; at
\* most one outcome fires.
C4_Sma20RuleAnyPrice ==
    [][(pc = "short_sma20" /\ sma_20 # None) =>
          Sma20Outcome(short'.buy_score - short.buy_score,
                       short'.sell_score - short.sell_score)]_vars

\* C4 amended: when SMA20 is defined and the current price is positive, on
\* the last two points of the close price and of the SMA20 series: previous
\* price <= previous SMA20 and current price > current SMA20 adds +2 buy;
\* previous price >= previous SMA20 and current price < current SMA20 adds
\* +2 sell; only without a crossover, +1 buy above 1.02 x SMA20 or +1 sell
\* below 0.98 x SMA20; at most one outcome fires.  With a current price of 0
\* or less the rule adds nothing.
C4_Sma20RulePositivePrice ==
    [][(pc = "short_sma20" /\ sma_20 # None) =>
          IF current_price > 0
          THEN Sma20Outcome(short'.buy_score - short.buy_score,
                            short'.sell_score - short.sell_score)
          ELSE /\ short'.buy_score = short.buy_score
               /\ short'.sell_score = short.sell_score]_vars

\* a crossover up at a positive price was scored as a bullish breakout
C4_BullishBreakout ==
    /\ pc = "short_momentum"
    /\ sma_20 # None
    /\ current_price > 0
    /\ ~isna(Prev(indicator_series.sma_20))
    /\ Prev(price_data.Close) <= Val(Prev(indicator_series.sma_20))
    /\ current_price > Val(sma_20)
    /\ "Price crossed above SMA20 (bullish breakout)" \in Range(short.reasons)

(***************************************************************************)
(* C5: with SMA200 defined and a positive current price, the SMA200 rule   *)
(* adds +3 buy exactly when the price is above SMA200 and +2 sell exactly  *)
(* when the price is below SMA200.  The SMA200 rule is the first of the    *)
(* long-term signal: after it the scores are its contribution.             *)
(***************************************************************************)
C5_Sma200Rule ==
    (pc = "long_cross" /\ sma_200 # None /\ current_price > 0) =>
        /\ (long.buy_score = 3) <=> (current_price > Val(sma_200))
        /\ (long.sell_score = 2) <=> (current_price < Val(sma_200))
        /\ long.buy_score \in {0, 3}
        /\ long.sell_score \in {0, 2}

\* the outcome table of the SMA50/SMA200 rule, for the points and reasons it added
CrossOutcome(db, ds, added) ==
    LET s50 == Val(sma_50)
        s200 == Val(sma_200)
        p50 == Prev(indicator_series.sma_50)
        p200 == Prev(indicator_series.sma_200)
        golden == ~isna(p50) /\ ~isna(p200) /\ Val(p50) <= Val(p200) /\ s50 > s200
        death == ~isna(p50) /\ ~isna(p200) /\ Val(p50) >= Val(p200) /\ s50 < s200
    IN  /\ golden =>
              /\ db = 3 /\ ds = 0
              /\ added = <<"Golden Cross detected (SMA50 > SMA200) - strong bullish signal">>
        /\ death =>
              /\ db = 0 /\ ds = 3
              /\ added = <<"Death Cross detected (SMA50 < SMA200) - strong bearish signal">>
        /\ (~golden /\ ~death) =>
              /\ (s50 > s200) => (db = 1 /\ ds = 0 /\ Len(added) = 1)
              /\ (s50 < s200) => (db = 0 /\ ds = 1 /\ Len(added) = 1)
        /\ (s50 = s200) => (db = 0 /\ ds = 0 /\ added = <<>>)

(***************************************************************************)
(* C6: the SMA50/SMA200 rule.  Previous SMA50 <= previous SMA200 and       *)
(* current SMA50 > current SMA200 adds +3 buy with the Golden Cross        *)
(* reason; previous SMA50 >= previous SMA200 and current SMA50 < current   *)
(* SMA200 adds +3 sell with the Death Cross reason; without a crossing     *)
(* +1 buy if SMA50 > SMA200, +1 sell if SMA50 < SMA200; exactly one of     *)
(* these fires, or none when SMA50 = SMA200.                               *)
(***************************************************************************)
C6_CrossRule ==
    [][(pc = "long_cross" /\ sma_50 # None /\ sma_200 # None) =>
          CrossOutcome(long'.buy_score - long.buy_score,
                       long'.sell_score - long.sell_score,
                       Added(long.reasons, long'.reasons))]_vars

\* SMA50 went from at-or-below to above SMA200 and the Golden Cross was scored
C6_GoldenCross ==
    /\ pc = "long_momentum"
    /\ sma_50 # None /\ sma_200 # None
    /\ ~isna(Prev(indicator_series.sma_50))
    /\ ~isna(Prev(indicator_series.sma_200))
    /\ Val(Prev(indicator_series.sma_50)) = Val(Prev(indicator_series.sma_200))
    /\ Val(sma_50) > Val(sma_200)
    /\ "Golden Cross detected (SMA50 > SMA200) - strong bullish signal"
           \in Range(long.reasons)

(***************************************************************************)
(* C7: both signal functions read the same latest momentum m.  The short-  *)
(* term rule adds +1 buy exactly when m > 5 and +1 sell exactly when       *)
(* m < -5; the long-term rule adds +2 buy exactly when m > 10 and +2 sell  *)
(* exactly when m < -10; at or inside the thresholds nothing is added.     *)
(***************************************************************************)
C7_MomentumRules ==
    [][/\ indicators' = indicators
       /\ (pc = "short_momentum") =>
             /\ short'.buy_score - short.buy_score
                   = (IF momentum # None /\ Val(momentum) > 5 THEN 1 ELSE 0)
             /\ short'.sell_score - short.sell_score
                   = (IF momentum # None /\ Val(momentum) < -5 THEN 1 ELSE 0)
       /\ (pc = "long_momentum") =>
             /\ long'.buy_score - long.buy_score
                   = (IF momentum # None /\ Val(momentum) > 10 THEN 2 ELSE 0)
             /\ long'.sell_score - long.sell_score
                   = (IF momentum # None /\ Val(momentum) < -10 THEN 2 ELSE 0)]_vars

\* a momentum of 6 % scored in the short-term signal and not in the long-term one
C7_SixPercent ==
    /\ pc = "done"
    /\ momentum = Num(6)
    /\ "Strong positive momentum ({momentum:.1f}%)" \in Range(short.reasons)
    /\ "Strong long-term momentum ({momentum:.1f}%)" \notin Range(long.reasons)

\* the spellings of the model's grades that are buy grades, and sell grades
BuySpellings == {Grade("Buy"), Grade("BUY"), Grade("strong buy"), Grade("Outperform")}

SellSpellings == {Grade("Sell"), Grade("Strong Sell"), Grade("underperform")}

(***************************************************************************)
(* C8: the analyst rule reads only the last 5 records (all of them when    *)
(* there are fewer), counts toGrade case-insensitively in {BUY, STRONG     *)
(* BUY, OUTPERFORM} against {SELL, STRONG SELL, UNDERPERFORM}, and adds    *)
(* +1 buy if buy-count > 2 x sell-count, otherwise +1 sell if sell-count   *)
(* > 2 x buy-count, otherwise nothing; older records change nothing.       *)
(***************************************************************************)
C8_AnalystRule ==
    [][(pc = "long_analyst") =>
          LET n == Len(recommendations)
              recent == {i \in 1 .. n : i > n - 5}
              graded == {i \in recent : "toGrade" \in DOMAIN recommendations[i]}
              bc == Cardinality({i \in graded : recommendations[i].toGrade \in BuySpellings})
              sc == Cardinality({i \in graded : recommendations[i].toGrade \in SellSpellings})
          IN  /\ long'.buy_score - long.buy_score = (IF bc > 2 * sc THEN 1 ELSE 0)
              /\ long'.sell_score - long.sell_score
                    = (IF ~(bc > 2 * sc) /\ sc > 2 * bc THEN 1 ELSE 0)]_vars

\* a sixth-from-last Sell that would have cancelled the tilt was not counted
C8_OldRecordIgnored ==
    /\ pc = "long_decide"
    /\ recommendations = <<Rec("Sell"), Rec("Buy"), Rec("Buy"),
                           Rec("Hold"), Rec("Hold"), Rec("Hold")>>
    /\ "Analyst sentiment: {buy_count} buy recommendations" \in Range(long.reasons)

(***************************************************************************)
(* C9: the volume step never changes buy_score, sell_score or the signal:  *)
(* the signal is the decision on the points of the RSI, SMA20 and momentum *)
(* rules, whatever the volume inputs.  A note is appended only when the    *)
(* 20-period average volume is positive and volume / average > 1.5; it     *)
(* names the side that leads, and none is appended on a tie.               *)
(***************************************************************************)
C9_VolumeIsInformational ==
    [][/\ (pc = "short_volume") =>
             LET b == short.buy_score
                 s == short.sell_score
                 vavg == indicator_series.volume_avg
                 high == /\ "Volume" \in price_data.columns
                         /\ vavg # None
                         /\ ~isna(Last(vavg))
                         /\ Val(Last(vavg)) > 0
                         /\ Last(price_data.Volume) * 2 > Val(Last(vavg)) * 3
             IN  /\ short'.buy_score = b
                 /\ short'.sell_score = s
                 /\ Added(short.reasons, short'.reasons)
                       = (IF high /\ b > s THEN <<"High volume confirms bullish move">>
                          ELSE IF high /\ s > b THEN <<"High volume confirms bearish move">>
                          ELSE <<>>)
       /\ (pc = "short_decide") =>
             LET rules == <<ShortRsiRule(rsi),
                            ShortSma20Rule(sma_20, current_price,
                                           indicator_series.sma_20, price_data.Close),
                            ShortMomentumRule(momentum)>>
                 b == rules[1].buy + rules[2].buy + rules[3].buy
                 s == rules[1].sell + rules[2].sell + rules[3].sell
             IN  short'.signal = (IF b > s /\ b >= 2 THEN "BUY"
                                  ELSE IF s > b /\ s >= 2 THEN "SELL"
                                  ELSE "HOLD")]_vars

\* high volume confirmed a bearish lead, and the scores are those of the rules
C9_BearishNote ==
    /\ pc = "short_decide"
    /\ "High volume confirms bearish move" \in Range(short.reasons)
    /\ short.sell_score = 2
    /\ short.buy_score = 0

(***************************************************************************)
(* C10: whichever of RSI, SMA20, SMA50, SMA200 and momentum are missing    *)
(* from the latest snapshot, both signal functions run to their return     *)
(* with a signal and a reason, and each score is the sum of what the rules *)
(* with present inputs add: the rule of a missing indicator adds 0.        *)
(***************************************************************************)
C10_MissingIndicatorsSkipped ==
    success =>
        LET sRsi == IF rsi # None THEN ShortRsiRule(rsi) ELSE Nothing
            sSma == IF sma_20 # None
                    THEN ShortSma20Rule(sma_20, current_price,
                                        indicator_series.sma_20, price_data.Close)
                    ELSE Nothing
            sMom == IF momentum # None THEN ShortMomentumRule(momentum) ELSE Nothing
            l200 == IF sma_200 # None THEN LongSma200Rule(sma_200, current_price)
                    ELSE Nothing
            lCross == IF sma_50 # None /\ sma_200 # None
                      THEN LongCrossRule(sma_50, sma_200, indicator_series.sma_50,
                                         indicator_series.sma_200)
                      ELSE Nothing
            lMom == IF momentum # None THEN LongMomentumRule(momentum) ELSE Nothing
            lAna == LongAnalystRule(recommendations)
        IN  /\ (pc # "done") => ENABLED Next
            /\ (pc \in AfterShort) =>
                  /\ short.buy_score = sRsi.buy + sSma.buy + sMom.buy
                  /\ short.sell_score = sRsi.sell + sSma.sell + sMom.sell
                  /\ short.signal \in {"BUY", "SELL", "HOLD"}
                  /\ short.reason # <<>>
            /\ (pc \in AfterLong) =>
                  /\ long.buy_score = l200.buy + lCross.buy + lMom.buy + lAna.buy
                  /\ long.sell_score = l200.sell + lCross.sell + lMom.sell + lAna.sell
                  /\ long.signal \in {"BUY", "SELL", "HOLD", "HOLD (Bullish)",
                                      "HOLD (Bearish)"}
                  /\ long.reason # <<>>

\* RSI, SMA50 and SMA200 missing, SMA20 and momentum present and scored
C10_SomeMissing ==
    /\ pc = "done"
    /\ success
    /\ rsi = None /\ sma_50 = None /\ sma_200 = None
    /\ sma_20 # None /\ momentum # None
    /\ short.buy_score = 3
    /\ long.buy_score = 3

(***************************************************************************)
(* C11: when calculate_all_indicators returned its error result (an empty  *)
(* frame, or a frame without a Close column), generate_short_term_signal   *)
(* and generate_long_term_signal both return exactly ("HOLD",              *)
(* "Insufficient data for analysis"), whatever the price data and the      *)
(* recommendations, and generate_trend_summary returns its                 *)
(* insufficient-data sentence.                                             *)
(***************************************************************************)
C11_FailedIndicatorsHold ==
    (indicators = [error |-> "Invalid price data"]) =>
        /\ (pc \in AfterShort) =>
              /\ short.signal = "HOLD"
              /\ short.reason = <<"Insufficient data for analysis">>
        /\ (pc \in AfterLong) =>
              /\ long.signal = "HOLD"
              /\ long.reason = <<"Insufficient data for analysis">>
        /\ (pc = "done") =>
              summary = <<"Insufficient data to generate trend summary for {ticker}.">>

\* a frame with rows but no Close column, with an analyst record at hand
C11_NoCloseColumn ==
    /\ pc = "done"
    /\ "error" \in DOMAIN indicators
    /\ ~empty(price_data)
    /\ recommendations # <<>>
    /\ short.signal = "HOLD" /\ long.signal = "HOLD"
    /\ summary = <<"Insufficient data to generate trend summary for {ticker}.">>

\* the history is non-empty, its indicators were computed, and SMA20, RSI
\* and momentum are all absent from the latest snapshot
TooShort ==
    /\ success
    /\ ~empty(price_data)
    /\ sma_20 = None /\ rsi = None /\ momentum = None

(***************************************************************************)
(* C12 as stated: for a non-empty price history too short for any          *)
(* indicator window (closes [100, 90, 80]: SMA20, RSI and momentum all     *)
(* absent), calculate_all_indicators followed by                           *)
(* generate_short_term_signal yields HOLD together with an                 *)
(* insufficient-data reason.                                               *)
(***************************************************************************)
C12_TooShortIsInsufficient ==
    (TooShort /\ pc \in AfterShort) =>
        /\ short.signal = "HOLD"
        /\ short.reason = <<"Insufficient data for analysis">>

(***************************************************************************)
(* C12 amended: for such a history calculate_all_indicators succeeds, no   *)
(* short-term rule fires, and generate_short_term_signal yields HOLD with  *)
(* both scores 0 and the neutral reason "Neutral technical indicators".    *)
(***************************************************************************)
C12_TooShortIsNeutral ==
    (TooShort /\ pc \in AfterShort) =>
        /\ short.signal = "HOLD"
        /\ short.buy_score = 0 /\ short.sell_score = 0
        /\ short.reason = <<"Neutral technical indicators">>

\* the closes [100, 90, 80] after generate_short_term_signal returned
C12_ThreeCloses ==
    /\ price_data.Close = <<100, 90, 80>>
    /\ indicators = calculate_all_indicators(price_data, IndicatorsOf(price_data))
    /\ TooShort
    /\ pc = "long_start"
    /\ short.signal = "HOLD"

\* `reason` is the explanations `rs` in their order with ", " between
\* neighbours, or the neutral phrase alone when there is no explanation
JoinedInOrder(reason, rs, neutral) ==
    IF rs = <<>> THEN reason = <<neutral>>
    ELSE /\ Len(reason) = 2 * Len(rs) - 1
         /\ \A i \in DOMAIN rs : reason[2 * i - 1] = rs[i]
         /\ \A i \in 1 .. Len(rs) - 1 : reason[2 * i] = ", "

(***************************************************************************)
(* C13: the reason returned by each signal function is the explanations of *)
(* the rules that fired, joined by ", " in the order the rules are         *)
(* evaluated (short-term: RSI, SMA20, momentum, volume note; long-term:    *)
(* SMA200, SMA50/SMA200, momentum, analysts), and it is the fixed neutral  *)
(* phrase ("Neutral technical indicators" / "Mixed long-term indicators")  *)
(* exactly when no scoring rule fired, that is exactly when both scores    *)
(* are 0.                                                                  *)
(***************************************************************************)
C13_ReasonInRuleOrder ==
    success =>
        /\ (pc \in AfterShort) =>
              LET rs == ShortRsiRule(rsi).reasons
                        \o ShortSma20Rule(sma_20, current_price,
                                          indicator_series.sma_20,
                                          price_data.Close).reasons
                        \o ShortMomentumRule(momentum).reasons
                        \o ShortVolumeRule(Get(indicator_series, "volume_avg", None),
                                           price_data, short.buy_score,
                                           short.sell_score).reasons
              IN  /\ JoinedInOrder(short.reason, rs, "Neutral technical indicators")
                  /\ (short.reason = <<"Neutral technical indicators">>)
                        <=> (short.buy_score = 0 /\ short.sell_score = 0)
        /\ (pc \in AfterLong) =>
              LET rs == LongSma200Rule(sma_200, current_price).reasons
                        \o LongCrossRule(sma_50, sma_200, indicator_series.sma_50,
                                         indicator_series.sma_200).reasons
                        \o LongMomentumRule(momentum).reasons
                        \o LongAnalystRule(recommendations).reasons
              IN  /\ JoinedInOrder(long.reason, rs, "Mixed long-term indicators")
                  /\ (long.reason = <<"Mixed long-term indicators">>)
                        <=> (long.buy_score = 0 /\ long.sell_score = 0)

\* four short-term explanations, the volume note last, and three long-term
\* ones
C13_ManyReasons ==
    /\ pc = "done"
    /\ Len(short.reasons) = 4
    /\ short.reason[7] \in {"High volume confirms bullish move",
                            "High volume confirms bearish move"}
    /\ Len(long.reasons) >= 3
    /\ Len(long.reason) = 2 * Len(long.reasons) - 1

\* what the properties of the indicator functions read
Called(function) == computed.function = function

AllMissing(values) == \A i \in DOMAIN values : isna(values[i])

AllDefined(values) == \A i \in DOMAIN values : ~isna(values[i])

\* the sums of the gains and of the losses over the window that ends at i
GainAt(i) == SumOf(Gains(diff(close_series)), i - window_size + 1, i)

LossAt(i) == SumOf(Losses(diff(close_series)), i - window_size + 1, i)

(***************************************************************************)
(* C14 as stated: for any closing-price series shorter than the window w,  *)
(* calculate_sma(w), calculate_ema(w) and calculate_rsi(w) each return "no *)
(* value" at every position, and never raise.                              *)
(***************************************************************************)
C14_ShortSeriesAllMissing ==
    (Len(close_series) < window_size
     /\ computed.function \in {"calculate_sma", "calculate_ema", "calculate_rsi"}) =>
        /\ Len(computed.values) = Len(close_series)
        /\ AllMissing(computed.values)

(***************************************************************************)
(* C14 amended: for any closing-price series shorter than the window w,    *)
(* calculate_sma(w) and calculate_rsi(w) return "no value" at every        *)
(* position, calculate_ema(w) returns a value at every position (the first *)
(* one being the first price), and none of the three raises.               *)
(***************************************************************************)
C14_ShortSeriesSmaRsiMissing ==
    (Len(close_series) < window_size) =>
        /\ (Called("calculate_sma") \/ Called("calculate_rsi")) =>
              /\ Len(computed.values) = Len(close_series)
              /\ AllMissing(computed.values)
        /\ Called("calculate_ema") =>
              /\ Len(computed.values) = Len(close_series)
              /\ AllDefined(computed.values)
              /\ (close_series # <<>>) => computed.values[1] = Num(close_series[1])

\* an EMA over two closes with window 3: both positions hold a value
C14_EmaOfShortSeries ==
    /\ Called("calculate_ema")
    /\ Len(close_series) = 2
    /\ window_size = 3
    /\ AllDefined(computed.values)
    /\ Len(computed.values) = 2

(***************************************************************************)
(* C15: for every closing-price series, at every position where            *)
(* calculate_rsi returns a defined value, that value lies in [0, 100].     *)
(***************************************************************************)
C15_RsiWithinBounds ==
    Called("calculate_rsi") =>
        \A i \in DOMAIN computed.values :
            ~isna(computed.values[i]) =>
                (0 <= Val(computed.values[i]) /\ Val(computed.values[i]) <= 100)

\* a window with gains and losses: an RSI strictly inside the interval
C15_MixedWindow ==
    /\ Called("calculate_rsi")
    /\ \E i \in DOMAIN computed.values :
          /\ ~isna(computed.values[i])
          /\ GainAt(i) > LossAt(i) /\ LossAt(i) > 0
          /\ 50 < Val(computed.values[i]) /\ Val(computed.values[i]) < 100

(***************************************************************************)
(* C16 as stated: calculate_rsi yields "no value" at every position where  *)
(* the average loss over the window is zero, including windows that hold   *)
(* gains but no losses.                                                    *)
(***************************************************************************)
C16_ZeroLossIsMissing ==
    Called("calculate_rsi") =>
        \A i \in DOMAIN computed.values :
            (i >= window_size /\ LossAt(i) = 0) => isna(computed.values[i])

(***************************************************************************)
(* C16 amended: at a position whose window is full and whose average loss  *)
(* is zero, calculate_rsi yields 100 when the window holds a gain and "no  *)
(* value" only when it holds no gain either; it never raises.              *)
(***************************************************************************)
C16_ZeroLossIsHundredOrMissing ==
    Called("calculate_rsi") =>
        \A i \in DOMAIN computed.values :
            (i >= window_size /\ LossAt(i) = 0) =>
                /\ (GainAt(i) > 0) => computed.values[i] = Num(100)
                /\ (GainAt(i) = 0) => isna(computed.values[i])

\* a rising window gives 100 and a flat window gives no value, in one series
C16_RisingThenFlat ==
    /\ Called("calculate_rsi")
    /\ \E i, j \in DOMAIN computed.values :
          /\ i >= window_size /\ LossAt(i) = 0 /\ GainAt(i) > 0
          /\ computed.values[i] = Num(100)
          /\ j >= window_size /\ LossAt(j) = 0 /\ GainAt(j) = 0
          /\ isna(computed.values[j])

\* the indicators whose last value the snapshot keeps
SnapshotKeys == {"sma_20", "sma_50", "sma_200", "rsi", "volatility", "momentum"}

\* the last entry of a series that is not missing, None if every entry is
FinalDefined(values) ==
    LET defined == {i \in DOMAIN values : ~isna(values[i])}
    IN  IF defined = {} THEN None
        ELSE values[CHOOSE i \in defined : \A j \in defined : j <= i]

(***************************************************************************)
(* C17 as stated: for each of sma_20, sma_50, sma_200, rsi, volatility and *)
(* momentum, the `latest` snapshot built by calculate_all_indicators holds *)
(* the final defined value of the indicator's series, and is absent only   *)
(* if the series has no defined value at all.                              *)
(***************************************************************************)
C17_LatestIsFinalDefined ==
    success =>
        \A k \in SnapshotKeys : latest[k] = FinalDefined(indicator_series[k])

(***************************************************************************)
(* C17 amended: for each of sma_20, sma_50, sma_200, rsi, volatility and   *)
(* momentum, the `latest` snapshot holds the last entry of the indicator's *)
(* series when that entry is defined and is absent whenever the last entry *)
(* is "no value", even if earlier entries of the series are defined.       *)
(***************************************************************************)
C17_LatestIsLastEntry ==
    success =>
        \A k \in SnapshotKeys :
            /\ ~isna(Last(indicator_series[k])) => latest[k] = Last(indicator_series[k])
            /\ isna(Last(indicator_series[k])) => latest[k] = None

\* sixteen closes, the last fifteen equal: the RSI series holds 100 at rows
\* 14 and 15 and no value at row 16, and the snapshot has no RSI
C17_FlatTailRsi ==
    /\ price_data.Close = FlatTail(15)
    /\ success
    /\ indicator_series.rsi = calculate_rsi(price_data.Close, 14)
    /\ indicator_series.rsi[15] = Num(100)
    /\ isna(Last(indicator_series.rsi))
    /\ latest.rsi = None
    /\ latest.momentum = Num(0)
    /\ pc = "done"

\* what the properties of search_stocks read
Directory == Range(POPULAR_STOCKS)

\* the match type the ranking gives a directory entry for a query, "" for
\* an entry that does not match
MatchTypeOf(entry, query) ==
    IF entry.ticker = strip(upper(query)) THEN "ticker_exact"
    ELSE IF startswith(entry.ticker, strip(upper(query))) THEN "ticker_prefix"
    ELSE IF Contains(lower(entry.name), strip(lower(query))) THEN "name_match"
    ELSE ""

Untruncated == search_limit >= Len(POPULAR_STOCKS)

\* the list search_stocks ranks before it cuts it
FullyRanked == IF search_query = <<>> THEN <<>> ELSE Ranked(search_query)

C19_AtMostLimit ==
    (search_pc = "return") =>
        /\ Len(stock_options) <= search_limit
        /\ stock_options = SubSeq(FullyRanked, 1, Len(stock_options))

(***************************************************************************)
(* C19 amended: for every query and every limit of 0 or more, search_stocks *)
(* returns at most `limit` results, and the returned list is the first     *)
(* `limit` entries of the fully ranked list (all of it when it is shorter); *)
(* for a negative limit it returns the fully ranked list without its last  *)
(* -limit entries.                                                         *)
(***************************************************************************)
C19_AtMostNonNegativeLimit ==
    (search_pc = "return") =>
        LET full == FullyRanked
        IN  /\ (search_limit >= 0) =>
                  /\ Len(stock_options) <= search_limit
                  /\ Len(stock_options) =
                        (IF search_limit < Len(full) THEN search_limit ELSE Len(full))
                  /\ stock_options = SubSeq(full, 1, Len(stock_options))
            /\ (search_limit < 0) =>
                  /\ Len(stock_options) =
                        (IF Len(full) + search_limit > 0 THEN Len(full) + search_limit
                         ELSE 0)
                  /\ stock_options = SubSeq(full, 1, Len(stock_options))

\* five ranked matches cut to the first two
C19_CutToTwo ==
    /\ search_pc = "return"
    /\ search_limit = 2
    /\ Len(FullyRanked) = 5
    /\ stock_options = SubSeq(FullyRanked, 1, 2)
    /\ stock_options[1].match_type = "ticker_exact"

\* what the properties of the news chain read
Sources == [i \in DOMAIN attempts |-> attempts[i].source]

IsPrefixOf(xs, ys) == Len(xs) <= Len(ys) /\ xs = SubSeq(ys, 1, Len(xs))

\* the attempts that kept at least one item
Productive == {i \in DOMAIN attempts : attempts[i].kept # <<>>}

\* no source is asked after one that produced items, and the news returned
\* are the items of the one source that produced any
FirstProductiveWins ==
    /\ \A i, j \in DOMAIN attempts : (i < j) => attempts[i].kept = <<>>
    /\ (fetch_pc = "returned" /\ Get(stock_data, "success", FALSE)) =>
          /\ (Productive = {}) => stock_data.news = <<>>
          /\ \A i \in Productive :
                /\ stock_data.news = attempts[i].kept
                /\ \A k \in DOMAIN stock_data.news :
                      stock_data.news[k].source = attempts[i].source

(***************************************************************************)
(* C20 as stated: during get_stock_data the news sources are asked in the  *)
(* fixed order primary provider news API, provider RSS feeds, general      *)
(* news-search RSS, HTML scrape, and no other; a later source is asked     *)
(* only if every earlier one produced an empty list, and the news returned *)
(* are the items of exactly one source, the first that produced any.       *)
(***************************************************************************)
C20_FourSourcesInOrder ==
    /\ IsPrefixOf(Sources, <<"news_api", "yahoo_rss_1", "yahoo_rss_2",
                             "google_rss", "html_scrape">>)
    /\ FirstProductiveWins

(***************************************************************************)
(* C20 amended: the news sources are asked in the fixed order primary      *)
(* provider news API, provider RSS feeds, general news-search RSS, HTML    *)
(* scrape, and then the general news-search RSS once more, searched by     *)
(* company name; a later source is asked only if every earlier one         *)
(* produced an empty list, and the news returned are the items of exactly  *)
(* one source, the first that produced any.                                *)
(***************************************************************************)
C20_FiveSourcesInOrder ==
    /\ IsPrefixOf(Sources, <<"news_api", "yahoo_rss_1", "yahoo_rss_2",
                             "google_rss", "html_scrape", "google_rss_again">>)
    /\ FirstProductiveWins

\* every source up to the scrape produced nothing, and the news returned
\* come from the second search of the general news RSS
C20_NewsFromSecondSearch ==
    /\ fetch_pc = "returned"
    /\ Get(stock_data, "success", FALSE)
    /\ Len(attempts) = 6
    /\ attempts[5].source = "html_scrape" /\ attempts[5].kept = <<>>
    /\ stock_data.news # <<>>
    /\ stock_data.news[1].source = "google_rss_again"


\* the result of get_stock_data is marked successful
Successful == fetch_pc = "returned" /\ Get(stock_data, "success", FALSE)

(***************************************************************************)
(* C21: in every successful result of get_stock_data the news list holds   *)
(* at most 10 items, whichever source supplied it and however many         *)
(* entries that source answered with.                                      *)
(***************************************************************************)
C21_NewsAtMostTen ==
    Successful => Len(stock_data.news) <= 10

\* a source answered with more than ten entries and ten of them are returned
C21_LongFeedCut ==
    /\ Successful
    /\ attempts # <<>>
    /\ Len(Last(attempts).response.entries) > 10
    /\ Len(stock_data.news) = 10


\* the order in which get_stock_data and its two helpers ask the sources
Chain == <<"news_api", "yahoo_rss_1", "yahoo_rss_2",
           "google_rss", "html_scrape", "google_rss_again">>

\* where the call stands once the first i sources have been asked in vain
AfterEmpty(i) == IF i < Len(Chain) THEN Chain[i + 1] ELSE "return"

\* every source asked so far raised or produced nothing
AllEmpty == \A i \in DOMAIN attempts : attempts[i].kept = <<>>

(***************************************************************************)
(* C22: a failure (an exception or an empty result) in a news stage of     *)
(* get_stock_data aborts neither the chain nor the fetch: the next source  *)
(* is still asked, and when every source raised or was empty while the     *)
(* price history is not empty, the result is successful with an empty      *)
(* news list.                                                              *)
(***************************************************************************)
C22_NewsFailureDoesNotAbort ==
    /\ \A i \in DOMAIN attempts :
          attempts[i].kept = <<>> =>
             IF i < Len(attempts)
             THEN attempts[i + 1].source = AfterEmpty(i)
             ELSE fetch_pc \in {AfterEmpty(i), "return", "returned"}
    /\ (fetch_pc = "returned" /\ attempts # <<>>) =>
          /\ Successful
          /\ ~empty(stock_data.price_data)
          /\ AllEmpty => (Len(attempts) = Len(Chain) /\ stock_data.news = <<>>)

\* all six sources were asked, some raised and some answered nothing usable,
\* and the result is successful with no news
C22_EveryStageFailed ==
    /\ Successful
    /\ Len(attempts) = Len(Chain)
    /\ AllEmpty
    /\ \E i \in DOMAIN attempts : attempts[i].response.raises
    /\ \E i \in DOMAIN attempts : ~attempts[i].response.raises
    /\ stock_data.news = <<>>


\* what the provider answered for the price history, and whether it was
\* asked for the info and the recommendations
HistoryAnswer == answers.history[1]

\* the history is empty, or an exception reaches the outer handler: the
\* history or the info raised, or the frame has no Close column to read
TotalFailure ==
    \/ HistoryAnswer.raises
    \/ empty(HistoryAnswer.frame)
    \/ answers.info[1].raises
    \/ "Close" \notin HistoryAnswer.frame.columns

\* some provider call of the run raised
ProviderRaised ==
    \/ \E k \in {"history", "info", "recommendations"} :
          answers[k] # <<>> /\ answers[k][1].raises
    \/ \E i \in DOMAIN attempts : attempts[i].response.raises

\* a result with an error message that is not marked successful
TaggedFailure ==
    /\ Get(stock_data, "error", "") # ""
    /\ ~Get(stock_data, "success", FALSE)

\* a result marked successful, with a price series and without an error
CompleteSuccess ==
    /\ Get(stock_data, "success", FALSE)
    /\ ~empty(stock_data.price_data)
    /\ "error" \notin DOMAIN stock_data

HasReturned == fetch_pc = "returned" /\ answers.history # <<>>

(***************************************************************************)
(* C23 as stated: get_stock_data always returns a result; on an empty      *)
(* price history or any provider exception the result carries an error     *)
(* message and is not marked successful, and every result marked           *)
(* successful carries a non-empty price series and no error.               *)
(***************************************************************************)
C23_AnyExceptionIsFailure ==
    HasReturned =>
       /\ TaggedFailure \/ CompleteSuccess
       /\ (empty(HistoryAnswer.frame) \/ ProviderRaised) => TaggedFailure

(***************************************************************************)
(* C23 amended: get_stock_data always returns a result; on an empty price  *)
(* history, or an exception while the history, the info or the last close  *)
(* is read, the result carries an error message and is not marked          *)
(* successful; otherwise, exceptions of the recommendations and of the     *)
(* news sources included, it is marked successful and carries a non-empty  *)
(* price series and no error.                                              *)
(***************************************************************************)
C23_TotalFailureIsTagged ==
    HasReturned => IF TotalFailure THEN TaggedFailure ELSE CompleteSuccess

\* the history was answered and the info raised: the result is the tagged
\* failure of the outer handler
C23_InfoRaised ==
    /\ HasReturned
    /\ ~HistoryAnswer.raises
    /\ ~empty(HistoryAnswer.frame)
    /\ answers.info[1].raises
    /\ TaggedFailure


(***************************************************************************)
(* get_market_sentiment of src/trend_analysis.py, called on its own: a     *)
(* news list of any small length and recommendation lists shorter and      *)
(* longer than the ten records it reads.                                   *)
(***************************************************************************)
HoldGrades == { <<"H", "O", "L", "D">>,
                <<"N", "E", "U", "T", "R", "A", "L">> }

\* the window of the tally taking every record
RecentTen_All(recs) == recs

\* recommendations[-10:] if len(recommendations) >= 10 else recommendations
RecentTen(recs) ==
    IF Len(recs) >= 10 THEN SubSeq(recs, Len(recs) - 9, Len(recs)) ELSE recs

get_market_sentiment(news, recs) ==
    [news_count |-> IF news # <<>> THEN Len(news) ELSE 0,
     recommendation_summary |->
        IF recs # <<>>
        THEN LET recent == RecentTen(recs)
             IN  [buy |-> GradeCount(recent, BuyGrades),
                  hold |-> GradeCount(recent, HoldGrades),
                  sell |-> GradeCount(recent, SellGrades),
                  total |-> Len(recent)]
        ELSE <<>>]

\* news lists hold up to MaxNews items
MaxNews == 3
\* the longest recommendation list
MaxHistory == 12

NewsOfLength(n) == [i \in 1 .. n |-> [title |-> "t", link |-> "l"]]

\* every list of up to two records of any grade, and the lists of 9 to
\* MaxHistory records that begin with one grade and end with another
SentimentRecLists ==
    SeqsUpTo(AllRecs \cup {Rec("Neutral")}, 2)
    \cup { [i \in 1 .. n |-> IF i <= k THEN a ELSE b] :
              n \in 9 .. MaxHistory, k \in 0 .. 3,
              a \in CoreRecs, b \in CoreRecs \cup {Rec("Neutral"), Rec("Buyer")} }

InitSentiment ==
    /\ sentiment_news \in {NewsOfLength(n) : n \in 0 .. MaxNews}
    /\ sentiment_recs \in SentimentRecLists
    /\ sentiment = <<>>
    /\ NoDashboard
    /\ NoCalculation
    /\ NoSearch
    /\ NoFetch
    /\ NoPage

MarketSentiment ==
    /\ sentiment = <<>>
    /\ sentiment' = get_market_sentiment(sentiment_news, sentiment_recs)
    /\ UNCHANGED <<sentiment_news, sentiment_recs, dashboard, calculation, search,
                   fetching, page>>

NextSentiment == MarketSentiment

SentimentSpec == InitSentiment /\ [][NextSentiment]_vars


(***************************************************************************)
(* One script run of main() of src/app.py from the fetch on: the call of   *)
(* get_stock_data, the call of calculate_all_indicators, the two signal    *)
(* functions and the trend summary.  get_stock_data runs as the actions of *)
(* the news chain above, the signal functions as the rule actions of the   *)
(* signal engine; an exception main() does not catch ends the run at       *)
(* "raised".                                                               *)
(***************************************************************************)
\* result.get('success', False) read as success whenever the key is absent
Reported_DefaultTrue(result) == Get(result, "success", TRUE)

\* result.get('success', False)
Reported(result) == Get(result, "success", FALSE)

\* st.error, st.info, st.warning
Message(kind, text) == [kind |-> kind, text |-> text]

InitRun ==
    /\ session_state = <<>>
    /\ widgets = DefaultWidgets
    /\ main_pc = "fetch"
    /\ main = [NoMain EXCEPT !.ticker = <<"A", "A", "P", "L">>, !.period = "1y"]
    /\ rendered = <<>>
    /\ NoDashboard
    /\ NoCalculation
    /\ NoSearch
    /\ NoFetch
    /\ NoSentiment

\* stock_data = get_stock_data(ticker, period): the call
RunFetch ==
    /\ main_pc = "fetch"
    /\ fetch_pc' = "history"
    /\ main_pc' = "fetching"
    /\ UNCHANGED <<fetch, attempts, answers, stock_data, session_state, widgets, main,
                   rendered, dashboard, calculation, search, sentiments>>

\* if not stock_data.get('success', False): st.error, st.info, return
RunFetchFailed ==
    /\ main_pc = "fetching"
    /\ fetch_pc = "returned"
    /\ ~Reported(stock_data)
    /\ rendered' = <<Message("error", Get(stock_data, "error", "Failed to fetch stock data")),
                     Message("info", "Try a different ticker symbol")>>
    /\ main_pc' = "return"
    /\ UNCHANGED <<session_state, widgets, main, dashboard, calculation, search,
                   fetching, sentiments>>

\* the result is unpacked and calculate_all_indicators called; a failure is
\* rendered and the run returns, otherwise the header, the overview and the
\* chart are rendered and the run goes on to the signals
RunIndicators ==
    /\ main_pc = "fetching"
    /\ fetch_pc = "returned"
    /\ Reported(stock_data)
    /\ IF {"price_data", "current_price"} \subseteq DOMAIN stock_data
       THEN LET pd == stock_data.price_data
                result == calculate_all_indicators(pd, IndicatorsOf(pd))
            IN  /\ price_data' = pd
                /\ recommendations' = Get(stock_data, "recommendations", <<>>)
                /\ indicators' = result
                /\ IF Reported(result)
                   THEN main_pc' = "signals" /\ pc' = "short_start" /\ UNCHANGED rendered
                   ELSE /\ rendered' = <<Message("error", "Failed to calculate indicators")>>
                        /\ main_pc' = "return"
                        /\ UNCHANGED pc
       ELSE main_pc' = "raised" /\ UNCHANGED <<inputs, pc, rendered>>
    /\ UNCHANGED <<short, long, summary, session_state, widgets, main, calculation,
                   search, fetching, sentiments>>

\* the Insights tab: the trend summary and the market sentiment
RunInsights ==
    /\ main_pc = "signals"
    /\ pc = "trend_summary"
    /\ LET news == Get(stock_data, "news", <<>>)
           info == Get(stock_data, "info", <<>>)
       IN  /\ summary' = generate_trend_summary(indicators, price_data,
                                                recommendations, news, info)
           /\ sentiment_news' = news
           /\ sentiment_recs' = recommendations
           /\ sentiment' = get_market_sentiment(news, recommendations)
    /\ rendered' = Append(rendered, Message("info", "{trend_summary}"))
    /\ pc' = "done"
    /\ main_pc' = "end"
    /\ UNCHANGED <<inputs, short, long, session_state, widgets, main, calculation,
                   search, fetching>>

NextRun ==
    \/ RunFetch
    \/ FetchHistory
    \/ NewsApi
    \/ YahooRss1
    \/ YahooRss2
    \/ GoogleRss
    \/ HtmlScrape
    \/ GoogleRssAgain
    \/ FetchReturn
    \/ RunFetchFailed
    \/ RunIndicators
    \/ ShortRsi
    \/ ShortSma20
    \/ ShortMomentum
    \/ ShortVolume
    \/ ShortDecide
    \/ LongSma200
    \/ LongCross
    \/ LongMomentum
    \/ LongAnalyst
    \/ LongDecide
    \/ RunInsights

RunSpec == InitRun /\ [][NextRun]_vars


\* what one script run has computed after the fetch
NothingComputed ==
    /\ pc = "done"
    /\ short = Fresh
    /\ long = Fresh
    /\ summary = <<>>
    /\ NoSentiment

(***************************************************************************)
(* C24: within one dashboard run the steps occur in the order fetch,       *)
(* indicator calculation, signal and narrative generation, and a failure   *)
(* halts the run: when get_stock_data does not report success no           *)
(* indicators, signals or trend summary are computed, when                 *)
(* calculate_all_indicators does not report success no signals or trend    *)
(* summary are computed, and in both cases an error message is rendered    *)
(* and the run returns without an uncaught exception.                      *)
(***************************************************************************)
C24_FailureHaltsRun ==
    /\ main_pc # "raised"
    /\ (main_pc \in {"fetch", "fetching"}) => (NoDashboard /\ NoSentiment)
    /\ ~NothingComputed =>
          /\ main_pc \in {"signals", "end"}
          /\ fetch_pc = "returned"
          /\ Reported(stock_data)
          /\ Reported(indicators)
    /\ (long # Fresh) => short.signal # ""
    /\ (summary # <<>>) => long.signal # ""
    /\ (fetch_pc = "returned" /\ main_pc # "fetch" /\ ~Reported(stock_data)) =>
          /\ main_pc \in {"fetching", "return"}
          /\ NoDashboard
    /\ (main_pc = "return") =>
          /\ ~Reported(stock_data) \/ ~Reported(indicators)
          /\ NothingComputed
          /\ rendered # <<>>
          /\ rendered[1].kind = "error"

\* the fetch failed: the run has returned with the error on the page and
\* nothing computed
C24_FetchFailureRendered ==
    /\ main_pc = "return"
    /\ TaggedFailure
    /\ rendered[1] = Message("error", stock_data.error)
    /\ NoDashboard


\* the positions of the last ten records (of all of them when fewer)
LastTen == {i \in DOMAIN sentiment_recs : i > Len(sentiment_recs) - 10}

\* how many of the last ten records carry a grade of the set
Tallied(grades) ==
    Cardinality({i \in LastTen :
                    upper(Get(sentiment_recs[i], "toGrade", <<>>)) \in grades})

\* a tally of the returned summary, read as the dashboard reads it
Tally(key) == Get(sentiment.recommendation_summary, key, 0)

(***************************************************************************)
(* C25: get_market_sentiment reports news_count equal to the number of     *)
(* news items and tallies buy, hold and sell over the last 10              *)
(* recommendation records only (all of them when fewer than 10), with the  *)
(* buy set {BUY, STRONG BUY, OUTPERFORM} and the sell set {SELL, STRONG     *)
(* SELL, UNDERPERFORM} of the signal engine; buy + hold + sell <= total    *)
(* <= 10.                                                                  *)
(***************************************************************************)
C25_SentimentTallies ==
    (sentiment # <<>>) =>
       /\ sentiment.news_count = Len(sentiment_news)
       /\ Tally("buy") = Tallied(BuyGrades)
       /\ Tally("sell") = Tallied(SellGrades)
       /\ Tally("hold") = Tallied(HoldGrades)
       /\ Tally("total") = Cardinality(LastTen)
       /\ Tally("buy") + Tally("hold") + Tally("sell") <= Tally("total")
       /\ Tally("total") <= 10

\* more than ten records, the first of them a buy that the tally leaves out
C25_OlderBuyLeftOut ==
    /\ sentiment # <<>>
    /\ Len(sentiment_recs) > 10
    /\ upper(sentiment_recs[1].toGrade) \in BuyGrades
    /\ Tally("buy") = 0
    /\ Tally("total") = 10
    /\ sentiment.news_count > 0


\* generate_long_term_signal has decided on the scores of the four rules
LongDecided == success /\ long.signal # ""

(***************************************************************************)
(* C26 as stated: generate_long_term_signal never returns BUY when         *)
(* sell_score is strictly greater than buy_score, and never returns SELL   *)
(* when buy_score is strictly greater than sell_score.                     *)
(***************************************************************************)
C26_SignalFollowsLeader ==
    LongDecided =>
       /\ (long.signal = "BUY") => (long.buy_score >= long.sell_score)
       /\ (long.signal = "SELL") => (long.sell_score >= long.buy_score)

(***************************************************************************)
(* C26 amended: generate_long_term_signal never returns SELL when          *)
(* buy_score is strictly greater than sell_score; it returns BUY whenever  *)
(* buy_score >= 4, which with sell_score strictly greater happens for the  *)
(* one score pair buy 4, sell 5.                                           *)
(***************************************************************************)
C26_BuyThresholdFirst ==
    LongDecided =>
       /\ (long.signal = "SELL") => (long.sell_score > long.buy_score)
       /\ (long.buy_score >= 4) => (long.signal = "BUY")
       /\ (long.signal = "BUY" /\ long.sell_score > long.buy_score) =>
             (long.buy_score = 4 /\ long.sell_score = 5)

\* price above SMA200 and positive analysts against a death cross and weak
\* momentum: BUY with 4 buy points against 5 sell points
C26_BuyAgainstFive ==
    /\ LongDecided
    /\ long.signal = "BUY"
    /\ long.buy_score = 4
    /\ long.sell_score = 5


\* one step of a signal function adds to at most one of its two scores and
\* takes nothing away
OneSided(before, after) ==
    /\ after.buy_score >= before.buy_score
    /\ after.sell_score >= before.sell_score
    /\ after.buy_score = before.buy_score \/ after.sell_score = before.sell_score

(***************************************************************************)
(* C27: each scoring rule contributes to at most one of the two scores, so *)
(* after any evaluation the short-term buy_score + sell_score <= 5 (each   *)
(* score in 0..5) and the long-term buy_score <= 9, sell_score <= 8 and    *)
(* buy_score + sell_score <= 9; the scores are never negative.             *)
(***************************************************************************)
C27_ScoresBounded ==
    [][/\ OneSided(short, short')
       /\ OneSided(long, long')
       /\ short'.buy_score \in 0 .. 5
       /\ short'.sell_score \in 0 .. 5
       /\ short'.buy_score + short'.sell_score <= 5
       /\ long'.buy_score \in 0 .. 9
       /\ long'.sell_score \in 0 .. 8
       /\ long'.buy_score + long'.sell_score <= 9]_vars

\* all four long-term rules scored for the buy side
C27_NineBuyPoints ==
    /\ LongDecided
    /\ long.buy_score = 9
    /\ long.sell_score = 0


(***************************************************************************)
(* The sidebar of main() of src/app.py, one script run per interaction:    *)
(* the search box, the dropdown built from the search results, the manual  *)
(* ticker box, the period and the Analyze button.  Every string is a       *)
(* sequence of characters.  A run is followed up to the fetch it starts;   *)
(* what the run does from there on is the run specification above, which   *)
(* leaves the session state and the widgets alone.                         *)
(***************************************************************************)
\* "📝 Enter ticker manually"; the pictograph is one character
ManualEntry == <<"[memo]", " ", "E", "n", "t", "e", "r", " ", "t", "i", "c", "k",
                 "e", "r", " ", "m", "a", "n", "u", "a", "l", "l", "y">>

AAPL == <<"A", "A", "P", "L">>

Periods == <<"1mo", "3mo", "6mo", "1y", "2y">>

\* session_state[key] = value
Set(d, key, value) ==
    [k \in DOMAIN d \cup {key} |-> IF k = key THEN value ELSE d[k]]

get_all_stocks ==
    [i \in DOMAIN POPULAR_STOCKS |->
        [ticker |-> POPULAR_STOCKS[i].ticker, name |-> POPULAR_STOCKS[i].name,
         sector |-> POPULAR_STOCKS[i].sector]]

\* f"{stock['ticker']} - {stock['name']}"
Option(stock) == stock.ticker \o <<" ", "-", " ">> \o stock.name

\* the manual entry first, then one option for each stock found
SelectboxOptions(query) ==
    LET found == IF query # <<>> THEN search_stocks(query, 100) ELSE get_all_stocks
    IN  <<ManualEntry>> \o [i \in DOMAIN found |-> Option(found[i])]

\* the test of the loop over enumerate(selectbox_options), i counting from 0
IsCurrent(opt, i, current_ticker) ==
    \/ startswith(opt, current_ticker \o <<" ", "-">>)
    \/ (opt = ManualEntry /\ i = 0)

\* current_index: the first i the loop breaks at, 0 when it never does or
\* when there is no current ticker
CurrentIndex(current_ticker, options) ==
    LET hits == {i \in 0 .. Len(options) - 1 :
                    IsCurrent(options[i + 1], i, current_ticker)}
    IN  IF current_ticker # <<>> /\ hits # {}
        THEN CHOOSE i \in hits : \A j \in hits : i <= j
        ELSE 0

\* selected_option.split(" - ")[0]
BeforeDash(opt) ==
    LET at == {k \in 1 .. Len(opt) - 2 : SubSeq(opt, k, k + 2) = <<" ", "-", " ">>}
    IN  IF at = {} THEN opt
        ELSE SubSeq(opt, 1, (CHOOSE k \in at : \A j \in at : k <= j) - 1)

\* what the user types into the search box
SearchTexts == { <<>>, <<"a">>, <<"T">>, <<"z", "z">> }

\* what the user types into the manual ticker box
TickerTexts == { <<>>, <<" ">>, <<" ", "t", " ">>, <<"m", "s">> }

\* the dropdown of each text the user can type, built once
OptionsFor == [text \in SearchTexts |-> SelectboxOptions(text)]

\* selectbox_options[current_index] unless the user picked another option
Selected(w, selectbox_options, current_index) ==
    IF w.selected_option # <<>> /\ w.selected_option[1] \in Range(selectbox_options)
    THEN w.selected_option[1]
    ELSE selectbox_options[current_index + 1]

\* the manual ticker box, which holds the current ticker until it is edited,
\* or the ticker of the option picked
TickerInput(w, selected_option, current_ticker) ==
    IF selected_option = ManualEntry
    THEN IF w.ticker_input # <<>> THEN w.ticker_input[1] ELSE current_ticker
    ELSE strip(BeforeDash(selected_option))

\* if search_query != st.session_state.get('search_query', '')
SearchStored(text) ==
    IF text # Get(session_state, "search_query", <<>>)
    THEN Set(session_state, "search_query", text)
    ELSE session_state

\* if ticker_input and ticker_input.strip()
Accepted(pressed, ticker_input) ==
    pressed /\ ticker_input # <<>> /\ strip(ticker_input) # <<>>

\* the Analyze button storing the ticker as it was typed
Analyzed_AsTyped(stored, accepted, ticker_input, period_select) ==
    IF accepted
    THEN Set(Set(stored, "ticker", ticker_input), "period", period_select)
    ELSE stored

\* the Analyze button: ticker and period are stored, or a warning is shown
Analyzed(stored, accepted, ticker_input, period_select) ==
    IF accepted
    THEN Set(Set(stored, "ticker", strip(upper(ticker_input))), "period", period_select)
    ELSE stored

\* one script run of main() up to the fetch, on what the widgets hold and on
\* whether the Analyze button was the widget pressed; each local is computed
\* once, in the order of the script
Script(w, pressed) ==
    \E stored \in {SearchStored(w.search_query)},
       selectbox_options \in {OptionsFor[w.search_query]} :
    \E current_ticker \in {Get(stored, "ticker", AAPL)} :
    \E current_index \in {CurrentIndex(current_ticker, selectbox_options)} :
    \E selected_option \in {Selected(w, selectbox_options, current_index)} :
    \E ticker_input \in {TickerInput(w, selected_option, current_ticker)} :
    \E accepted \in {Accepted(pressed, ticker_input)} :
    \E after \in {Analyzed(stored, accepted, ticker_input, w.period_select)} :
    \E ticker \in {Get(after, "ticker", AAPL)} :
        /\ session_state' = after
        /\ widgets' = [search_query |-> w.search_query,
                       selected_option |-> <<selected_option>>,
                       ticker_input |-> IF selected_option = ManualEntry
                                        THEN <<ticker_input>> ELSE <<>>,
                       period_select |-> w.period_select]
        /\ main' = [selectbox_options |-> selectbox_options,
                    current_ticker |-> current_ticker,
                    current_index |-> current_index,
                    selected_option |-> selected_option,
                    ticker_input |-> ticker_input,
                    period_select |-> w.period_select,
                    pressed |-> pressed,
                    ticker |-> ticker,
                    period |-> Get(after, "period", "1y")]
        /\ rendered' =
              (IF pressed /\ ~accepted
               THEN <<Message("warning", "Please enter or select a stock ticker")>>
               ELSE <<>>)
              \o (IF ticker = <<>>
                  THEN <<Message("info", "Please enter a stock ticker in the sidebar")>>
                  ELSE <<>>)
        /\ main_pc' = IF ticker = <<>> THEN "return" ELSE "fetch"

InitPage ==
    /\ session_state = <<>>
    /\ widgets = DefaultWidgets
    /\ main_pc = "start"
    /\ main = NoMain
    /\ rendered = <<>>
    /\ NoDashboard
    /\ NoCalculation
    /\ NoSearch
    /\ NoFetch
    /\ NoSentiment

\* the first script run of a session
PageLoad ==
    /\ main_pc = "start"
    /\ Script(widgets, FALSE)
    /\ UNCHANGED <<dashboard, calculation, search, fetching, sentiments>>

\* the user edits the search box
EditSearch ==
    /\ main_pc # "start"
    /\ \E text \in SearchTexts :
          /\ text # widgets.search_query
          /\ Script([widgets EXCEPT !.search_query = text], FALSE)
    /\ UNCHANGED <<dashboard, calculation, search, fetching, sentiments>>

\* the user picks an option of the dropdown
SelectStock ==
    /\ main_pc # "start"
    /\ \E opt \in Range(main.selectbox_options) :
          /\ opt # main.selected_option
          /\ Script([widgets EXCEPT !.selected_option = <<opt>>], FALSE)
    /\ UNCHANGED <<dashboard, calculation, search, fetching, sentiments>>

\* the user edits the manual ticker box, which manual entry shows
EditTicker ==
    /\ main_pc # "start"
    /\ main.selected_option = ManualEntry
    /\ \E text \in TickerTexts :
          /\ text # main.ticker_input
          /\ Script([widgets EXCEPT !.ticker_input = <<text>>], FALSE)
    /\ UNCHANGED <<dashboard, calculation, search, fetching, sentiments>>

\* the user picks another period
ChangePeriod ==
    /\ main_pc # "start"
    /\ \E p \in Range(Periods) :
          /\ p # widgets.period_select
          /\ Script([widgets EXCEPT !.period_select = p], FALSE)
    /\ UNCHANGED <<dashboard, calculation, search, fetching, sentiments>>

\* the user presses Analyze Stock
PressAnalyze ==
    /\ main_pc # "start"
    /\ Script(widgets, TRUE)
    /\ UNCHANGED <<dashboard, calculation, search, fetching, sentiments>>

NextPage ==
    \/ PageLoad
    \/ EditSearch
    \/ SelectStock
    \/ EditTicker
    \/ ChangePeriod
    \/ PressAnalyze

PageSpec == InitPage /\ [][NextPage]_vars


\* the ticker and the period a script run analyses when the session state
\* is `state`
Stored(state) == <<Get(state, "ticker", AAPL), Get(state, "period", "1y")>>

\* the keys the Analyze button sets, as far as they are set
Kept(state) == [k \in DOMAIN state \cap {"ticker", "period"} |-> state[k]]

\* the session state holds a proper ticker and period, or neither yet
ProperSelection(state) ==
    /\ ("ticker" \in DOMAIN state) <=> ("period" \in DOMAIN state)
    /\ ("ticker" \in DOMAIN state) =>
          /\ state.ticker # <<>>
          /\ upper(state.ticker) = state.ticker
          /\ strip(state.ticker) = state.ticker
          /\ state.period \in Range(Periods)

(***************************************************************************)
(* C28: after any sequence of dashboard reruns (search edits, dropdown     *)
(* selections, manual ticker edits, period changes, Analyze presses) the   *)
(* ticker held in session state is non-empty, upper-case and stripped of   *)
(* whitespace and the period is one of 1mo, 3mo, 6mo, 1y, 2y; ticker and   *)
(* period change only in a rerun where Analyze was pressed with a          *)
(* non-blank ticker input, and then both are set together; a rerun without *)
(* such a press analyses the ticker and period stored before (AAPL and 1y  *)
(* at first).                                                              *)
(***************************************************************************)
C28_SelectionChangesOnAnalyze ==
    [][/\ ProperSelection(session_state')
       /\ <<main'.ticker, main'.period>> = Stored(session_state')
       /\ IF main'.pressed /\ strip(main'.ticker_input) # <<>>
          THEN Kept(session_state') = [ticker |-> strip(upper(main'.ticker_input)),
                                       period |-> main'.period_select]
          ELSE /\ Kept(session_state') = Kept(session_state)
               /\ <<main'.ticker, main'.period>> = Stored(session_state)]_vars

\* " t " typed into the manual box and Analyze pressed with another period:
\* the session holds T and that period
C28_TypedTickerStored ==
    /\ main.pressed
    /\ main.ticker_input = <<" ", "t", " ">>
    /\ session_state.ticker = <<"T">>
    /\ session_state.period = "2y"
    /\ main.ticker = <<"T">>


\* the positions, counted from 0, of the options of the current ticker
OptionsOfCurrent ==
    {i \in 0 .. Len(main.selectbox_options) - 1 :
        startswith(main.selectbox_options[i + 1], main.current_ticker \o <<" ", "-">>)}

(***************************************************************************)
(* C29: when the currently stored ticker appears among the dropdown        *)
(* options built from the search results, the default selection index the  *)
(* dashboard computes points at that ticker's option; the manual-entry     *)
(* option (index 0) is the default only when the ticker is not among the   *)
(* options.                                                                *)
(***************************************************************************)
C29_DefaultIsCurrentTicker ==
    (main_pc # "start") =>
       IF OptionsOfCurrent # {}
       THEN main.current_index \in OptionsOfCurrent
       ELSE main.current_index = 0


\* ---------------------------------------------------------------------------
\* the blank query (stock_search.py:94-118)

\* C30: search_stocks returns an empty list for every query that is empty
\* after trimming whitespace, the empty string and whitespace-only strings
\* alike; it never returns directory entries for a blank query.
C30_BlankQueryReturnsNothing ==
    (search_pc = "return" /\ strip(search_query) = <<>>) => stock_options = <<>>

====
